---- MODULE Spec2Model ----
(***************************************************************************)
(* Clip listing endpoint (routes/process-video.js, GET /api/clips): query  *)
(* normalisation, cursor codec, month ranges, post-fetch filtering,        *)
(* sorting and next-cursor emission, with the client's pagination hook.    *)
(*                                                                         *)
(* Text is modelled as a sequence of one-character strings over printable  *)
(* ASCII; bytes are the ASCII codes of the characters.                     *)
(***************************************************************************)
EXTENDS Integers, Sequences, FiniteSets, TLC

VARIABLES
    clips,       \* storage: the "clips" collection, a sequence of documents in id order
    clockYear,   \* new Date().getFullYear() of the server
    req,         \* req.query of the listing request being answered
    env,         \* what that request met: Date.now() and the error storage threw, if any
    normalized,  \* what validateQueryParams returned (or the error it threw)
    res,         \* the response sent
    page1,       \* the response whose nextCursor the client followed to get res
    wrote,       \* a write to storage happened since page1 was answered
    cursorObj,   \* codec: the object given to encodeCursor
    cursorText,  \* codec: the cursor text on the wire
    cursorOut,   \* codec: what decodeCursor returned
    monthArg,    \* parseMonthRange: its argument
    monthOut,    \* parseMonthRange: its result
    timeArg,     \* parseTimeToSeconds: its argument
    timeOut,     \* parseTimeToSeconds of parse.ts: what it returned or threw
    timeJsOut,   \* parseTimeToSeconds of parse.js: what it returned or threw
    timingClip,  \* validateClipTiming: its argument
    timingOut,   \* validateClipTiming: its result
    batchIn,     \* batchValidateClips: its argument
    batchOut,    \* batchValidateClips: its result
    stored,      \* the clips collection as the admin routes write it: the documents, oldest first
    writeReq,    \* the body of the admin request being answered, with what it met
    writeRes,    \* the response to it
    hook,        \* the state and the refs of useClipsPagination in a component
    inFlight,    \* the listing requests of the hook that are sent and not yet answered
    fetches      \* how many listing requests the hook has sent

vars == <<clips, clockYear, req, env, normalized, res, page1, wrote,
          cursorObj, cursorText, cursorOut, monthArg, monthOut,
          timeArg, timeOut, timeJsOut, timingClip, timingOut,
          batchIn, batchOut,
          stored, writeReq, writeRes,
          hook, inFlight, fetches>>

requestVars == <<req, env, normalized, res, page1, wrote>>
codecVars == <<cursorObj, cursorText, cursorOut>>
monthVars == <<monthArg, monthOut>>
timeVars == <<timeArg, timeOut, timeJsOut>>
timingVars == <<timingClip, timingOut>>
batchVars == <<batchIn, batchOut>>
writeVars == <<stored, writeReq, writeRes>>
hookVars == <<hook, inFlight, fetches>>

-----------------------------------------------------------------------------
(* Characters and bytes *)

\* Printable ASCII, code 32 (space) to 126 (~), in code order; "<bq>" stands for
\* the backquote (code 96).
Ascii ==
    <<" ", "!", "\"", "#", "$", "%", "&", "'", "(", ")", "*", "+", ",", "-", ".", "/",
      "0", "1", "2", "3", "4", "5", "6", "7", "8", "9", ":", ";", "<", "=", ">", "?",
      "@", "A", "B", "C", "D", "E", "F", "G", "H", "I", "J", "K", "L", "M", "N", "O",
      "P", "Q", "R", "S", "T", "U", "V", "W", "X", "Y", "Z", "[", "\\", "]", "^", "_",
      "<bq>", "a", "b", "c", "d", "e", "f", "g", "h", "i", "j", "k", "l", "m", "n", "o",
      "p", "q", "r", "s", "t", "u", "v", "w", "x", "y", "z", "{", "|", "}", "~">>

\* Characters a decoded byte outside printable ASCII turns into: JSON whitespace
\* (tab, LF, CR), another control byte, DEL, and a byte of 128 or more.
WsChar == "<ws>"
CtlChar == "<ctl>"
DelChar == "<del>"
HiChar == "<hi>"

AsciiSet == {Ascii[i] : i \in 1..Len(Ascii)}

CodeTable == [c \in AsciiSet |-> 31 + (CHOOSE i \in 1..Len(Ascii) : Ascii[i] = c)]

\* The byte of a character (String.prototype.charCodeAt on ASCII text).
CodeOf(c) ==
    CASE c \in AsciiSet -> CodeTable[c]
      [] c = WsChar -> 10
      [] c = CtlChar -> 1
      [] c = DelChar -> 127
      [] OTHER -> 128

\* The character of a byte (Buffer.toString("utf8") on one byte).
CharOf(b) ==
    CASE b >= 32 /\ b <= 126 -> Ascii[b - 31]
      [] b = 9 \/ b = 10 \/ b = 13 -> WsChar
      [] b < 32 -> CtlChar
      [] b = 127 -> DelChar
      [] OTHER -> HiChar

Digits == {"0", "1", "2", "3", "4", "5", "6", "7", "8", "9"}

IsDigit(c) == c \in Digits

DigitVal(c) == CodeOf(c) - 48

DigitChar(d) == Ascii[d + 17]

\* Whether text s continues, at position i, with the text lit.
StartsAt(s, i, lit) ==
    /\ i + Len(lit) - 1 <= Len(s)
    /\ \A k \in 1..Len(lit) : s[i + k - 1] = lit[k]

\* The decimal digits of a non-negative integer (Number.prototype.toString).
RECURSIVE NatToStr(_)
NatToStr(n) == IF n < 10 THEN <<DigitChar(n)>> ELSE NatToStr(n \div 10) \o <<DigitChar(n % 10)>>

IntToStr(n) == IF n < 0 THEN <<"-">> \o NatToStr(0 - n) ELSE NatToStr(n)

\* The value of a run of decimal digits.
RECURSIVE DigitsToNat(_)
DigitsToNat(s) ==
    IF s = <<>> THEN 0 ELSE 10 * DigitsToNat(SubSeq(s, 1, Len(s) - 1)) + DigitVal(s[Len(s)])

\* The length of the run of digits of s that starts at position i.
RECURSIVE DigitRun(_, _)
DigitRun(s, i) == IF i <= Len(s) /\ IsDigit(s[i]) THEN 1 + DigitRun(s, i + 1) ELSE 0

\* String.prototype.trim, on the whitespace the model has (space and <ws>).
IsSpace(c) == c = " " \/ c = WsChar

RECURSIVE TrimLeft(_)
TrimLeft(s) == IF s # <<>> /\ IsSpace(Head(s)) THEN TrimLeft(Tail(s)) ELSE s

RECURSIVE TrimRight(_)
TrimRight(s) ==
    IF s # <<>> /\ IsSpace(s[Len(s)]) THEN TrimRight(SubSeq(s, 1, Len(s) - 1)) ELSE s

Trim(s) == TrimRight(TrimLeft(s))

\* a < b and a <= b of two strings (JavaScript compares code units, shorter first).
RECURSIVE StrLess(_, _)
StrLess(a, b) ==
    IF b = <<>> THEN FALSE
    ELSE IF a = <<>> THEN TRUE
    ELSE IF CodeOf(Head(a)) # CodeOf(Head(b)) THEN CodeOf(Head(a)) < CodeOf(Head(b))
    ELSE StrLess(Tail(a), Tail(b))

StrLeq(a, b) == a = b \/ StrLess(a, b)

-----------------------------------------------------------------------------
(* JavaScript values.  Every value is a record of the same four fields, so   *)
(* that any two values can be compared: t the kind, n a number's integer     *)
(* part (or a boolean as 0/1, or the sign of an infinity), s a string's text *)
(* (or a number's fraction and exponent text), f an object's fields in       *)
(* insertion order (or an array's elements).                                 *)

JsUndef == [t |-> "undefined", n |-> 0, s |-> <<>>, f |-> <<>>]
JsNull == [t |-> "null", n |-> 0, s |-> <<>>, f |-> <<>>]
JsBool(b) == [t |-> "boolean", n |-> IF b THEN 1 ELSE 0, s |-> <<>>, f |-> <<>>]
JsNum(n) == [t |-> "number", n |-> n, s |-> <<>>, f |-> <<>>]
JsFrac(n, frac) == [t |-> "number", n |-> n, s |-> frac, f |-> <<>>]
JsNaN == [t |-> "NaN", n |-> 0, s |-> <<>>, f |-> <<>>]
JsInf(sign) == [t |-> "Infinity", n |-> sign, s |-> <<>>, f |-> <<>>]
JsStr(s) == [t |-> "string", n |-> 0, s |-> s, f |-> <<>>]
JsObj(f) == [t |-> "object", n |-> 0, s |-> <<>>, f |-> f]
JsArr(f) == [t |-> "array", n |-> 0, s |-> <<>>, f |-> f]

Fld(k, v) == [k |-> k, v |-> v]

\* typeof v
TypeOf(v) ==
    CASE v.t \in {"number", "NaN", "Infinity"} -> "number"
      [] v.t \in {"object", "array", "null"} -> "object"
      [] OTHER -> v.t

\* k in obj
HasKey(obj, k) == obj.t = "object" /\ \E i \in 1..Len(obj.f) : obj.f[i].k = k

\* obj[k]
Get(obj, k) ==
    IF HasKey(obj, k)
    THEN obj.f[CHOOSE i \in 1..Len(obj.f) : obj.f[i].k = k].v
    ELSE JsUndef

\* obj[k] = v on a field list: a key already there keeps its place.
SetField(f, k, v) ==
    IF \E i \in 1..Len(f) : f[i].k = k
    THEN [i \in 1..Len(f) |-> IF f[i].k = k THEN Fld(k, v) ELSE f[i]]
    ELSE Append(f, Fld(k, v))

\* a === b (NaN equals nothing, itself included).
StrictEq(a, b) == a.t # "NaN" /\ a = b

-----------------------------------------------------------------------------
(* JSON.stringify *)

\* One character of a string, as JSON.stringify writes it inside quotes.
EscapeChar(c) ==
    CASE c = "\"" -> <<"\\", "\"">>
      [] c = "\\" -> <<"\\", "\\">>
      [] c = WsChar -> <<"\\", "n">>
      [] c = CtlChar -> <<"\\", "u", "0", "0", "0", "1">>
      [] OTHER -> <<c>>

RECURSIVE EscapeAll(_)
EscapeAll(s) == IF s = <<>> THEN <<>> ELSE EscapeChar(Head(s)) \o EscapeAll(Tail(s))

Quote(s) == <<"\"">> \o EscapeAll(s) \o <<"\"">>

Lit(name) ==
    CASE name = "null" -> <<"n", "u", "l", "l">>
      [] name = "true" -> <<"t", "r", "u", "e">>
      [] name = "false" -> <<"f", "a", "l", "s", "e">>

RECURSIVE Stringify(_)
RECURSIVE StringifyFields(_, _)
RECURSIVE StringifyElems(_, _)

\* JSON.stringify(v), for a v that is not undefined.
Stringify(v) ==
    CASE v.t = "string" -> Quote(v.s)
      [] v.t = "number" -> IntToStr(v.n) \o v.s
      [] v.t \in {"NaN", "Infinity", "null"} -> Lit("null")
      [] v.t = "boolean" -> IF v.n = 1 THEN Lit("true") ELSE Lit("false")
      [] v.t = "object" -> <<"{">> \o StringifyFields(v.f, TRUE) \o <<"}">>
      [] v.t = "array" -> <<"[">> \o StringifyElems(v.f, TRUE) \o <<"]">>

\* The members of an object; a field whose value is undefined is left out.
StringifyFields(f, first) ==
    IF f = <<>> THEN <<>>
    ELSE IF Head(f).v.t = "undefined" THEN StringifyFields(Tail(f), first)
    ELSE (IF first THEN <<>> ELSE <<",">>)
         \o Quote(Head(f).k) \o <<":">> \o Stringify(Head(f).v)
         \o StringifyFields(Tail(f), FALSE)

\* The elements of an array; an undefined element is written null.
StringifyElems(f, first) ==
    IF f = <<>> THEN <<>>
    ELSE (IF first THEN <<>> ELSE <<",">>)
         \o (IF Head(f).v.t = "undefined" THEN Lit("null") ELSE Stringify(Head(f).v))
         \o StringifyElems(Tail(f), FALSE)

-----------------------------------------------------------------------------
(* JSON.parse: a parse step returns [ok, v, i], the value read and the      *)
(* position after it; ok = FALSE is the SyntaxError JSON.parse throws.      *)

ParseFail == [ok |-> FALSE, v |-> JsUndef, i |-> 0]
Parsed(v, i) == [ok |-> TRUE, v |-> v, i |-> i]

RECURSIVE SkipWs(_, _)
SkipWs(s, i) == IF i <= Len(s) /\ IsSpace(s[i]) THEN SkipWs(s, i + 1) ELSE i

HexVal(c) ==
    CASE IsDigit(c) -> DigitVal(c)
      [] c \in {"a", "A"} -> 10
      [] c \in {"b", "B"} -> 11
      [] c \in {"c", "C"} -> 12
      [] c \in {"d", "D"} -> 13
      [] c \in {"e", "E"} -> 14
      [] c \in {"f", "F"} -> 15
      [] OTHER -> -1

\* The text of a string literal whose opening quote is before position i.
RECURSIVE ParseString(_, _, _)
ParseString(s, i, acc) ==
    IF i > Len(s) THEN ParseFail
    ELSE IF s[i] = "\"" THEN Parsed(JsStr(acc), i + 1)
    ELSE IF s[i] \in {WsChar, CtlChar} THEN ParseFail
    ELSE IF s[i] # "\\" THEN ParseString(s, i + 1, Append(acc, s[i]))
    ELSE IF i + 1 > Len(s) THEN ParseFail
    ELSE IF s[i + 1] \in {"\"", "\\", "/"} THEN ParseString(s, i + 2, Append(acc, s[i + 1]))
    ELSE IF s[i + 1] \in {"n", "r", "t"} THEN ParseString(s, i + 2, Append(acc, WsChar))
    ELSE IF s[i + 1] \in {"b", "f"} THEN ParseString(s, i + 2, Append(acc, CtlChar))
    ELSE IF s[i + 1] = "u" /\ i + 5 <= Len(s) /\ \A k \in 2..5 : HexVal(s[i + k]) >= 0
    THEN LET code == 4096 * HexVal(s[i + 2]) + 256 * HexVal(s[i + 3])
                     + 16 * HexVal(s[i + 4]) + HexVal(s[i + 5])
         IN ParseString(s, i + 6, Append(acc, CharOf(code)))
    ELSE ParseFail

\* A number literal starting at position i: -?(0|[1-9][0-9]*)(.[0-9]+)?([eE][+-]?[0-9]+)?
ParseNumber(s, i) ==
    LET neg == s[i] = "-"
        d == IF neg THEN i + 1 ELSE i
        run == DigitRun(s, d)
        intLen == IF run > 0 /\ s[d] = "0" THEN 1 ELSE run
        a == d + intLen
        fracLen == IF a <= Len(s) /\ s[a] = "." THEN 1 + DigitRun(s, a + 1) ELSE 0
        b == a + fracLen
        signLen == IF b + 1 <= Len(s) /\ s[b + 1] \in {"+", "-"} THEN 1 ELSE 0
        expLen == IF b <= Len(s) /\ s[b] \in {"e", "E"}
                  THEN 1 + signLen + DigitRun(s, b + 1 + signLen) ELSE 0
        mag == DigitsToNat(SubSeq(s, d, a - 1))
    IN IF intLen = 0 \/ fracLen = 1 \/ expLen = 1 + signLen THEN ParseFail
       ELSE Parsed(JsFrac(IF neg THEN 0 - mag ELSE mag, SubSeq(s, a, b + expLen - 1)),
                   b + expLen)

RECURSIVE ParseValue(_, _)
RECURSIVE ParseMembers(_, _, _)
RECURSIVE ParseElements(_, _, _)

ParseValue(s, i0) ==
    LET i == SkipWs(s, i0) IN
    IF i > Len(s) THEN ParseFail
    ELSE IF s[i] = "{" THEN
        (IF SkipWs(s, i + 1) <= Len(s) /\ s[SkipWs(s, i + 1)] = "}"
         THEN Parsed(JsObj(<<>>), SkipWs(s, i + 1) + 1)
         ELSE ParseMembers(s, i + 1, <<>>))
    ELSE IF s[i] = "[" THEN
        (IF SkipWs(s, i + 1) <= Len(s) /\ s[SkipWs(s, i + 1)] = "]"
         THEN Parsed(JsArr(<<>>), SkipWs(s, i + 1) + 1)
         ELSE ParseElements(s, i + 1, <<>>))
    ELSE IF s[i] = "\"" THEN ParseString(s, i + 1, <<>>)
    ELSE IF s[i] = "-" \/ IsDigit(s[i]) THEN ParseNumber(s, i)
    ELSE IF StartsAt(s, i, Lit("true")) THEN Parsed(JsBool(TRUE), i + 4)
    ELSE IF StartsAt(s, i, Lit("false")) THEN Parsed(JsBool(FALSE), i + 5)
    ELSE IF StartsAt(s, i, Lit("null")) THEN Parsed(JsNull, i + 4)
    ELSE ParseFail

\* "key": value, then "," and more members or "}".
ParseMembers(s, i0, acc) ==
    LET i == SkipWs(s, i0) IN
    IF i > Len(s) \/ s[i] # "\"" THEN ParseFail
    ELSE LET key == ParseString(s, i + 1, <<>>) IN
    IF ~key.ok THEN ParseFail
    ELSE LET c == SkipWs(s, key.i) IN
    IF c > Len(s) \/ s[c] # ":" THEN ParseFail
    ELSE LET val == ParseValue(s, c + 1) IN
    IF ~val.ok THEN ParseFail
    ELSE LET e == SkipWs(s, val.i)
             acc2 == SetField(acc, key.v.s, val.v) IN
    IF e > Len(s) THEN ParseFail
    ELSE IF s[e] = "}" THEN Parsed(JsObj(acc2), e + 1)
    ELSE IF s[e] = "," THEN ParseMembers(s, e + 1, acc2)
    ELSE ParseFail

\* value, then "," and more elements or "]".
ParseElements(s, i0, acc) ==
    LET val == ParseValue(s, i0) IN
    IF ~val.ok THEN ParseFail
    ELSE LET e == SkipWs(s, val.i)
             acc2 == Append(acc, Fld(<<>>, val.v)) IN
    IF e > Len(s) THEN ParseFail
    ELSE IF s[e] = "]" THEN Parsed(JsArr(acc2), e + 1)
    ELSE IF s[e] = "," THEN ParseElements(s, e + 1, acc2)
    ELSE ParseFail

\* JSON.parse(s): the whole text must be one value.
JsonParse(s) ==
    LET Whole(r) == IF r.ok /\ SkipWs(s, r.i) = Len(s) + 1 THEN r ELSE ParseFail
    IN Whole(ParseValue(s, 1))

-----------------------------------------------------------------------------
(* Buffer.from(text).toString("base64url") and Buffer.from(s, "base64url") *)

B64 ==
    <<"A", "B", "C", "D", "E", "F", "G", "H", "I", "J", "K", "L", "M", "N", "O", "P",
      "Q", "R", "S", "T", "U", "V", "W", "X", "Y", "Z", "a", "b", "c", "d", "e", "f",
      "g", "h", "i", "j", "k", "l", "m", "n", "o", "p", "q", "r", "s", "t", "u", "v",
      "w", "x", "y", "z", "0", "1", "2", "3", "4", "5", "6", "7", "8", "9", "-", "_">>

B64Set == {B64[i] : i \in 1..64} \cup {"+", "/"}

B64Table == [c \in {B64[i] : i \in 1..64} |-> (CHOOSE i \in 1..64 : B64[i] = c) - 1]

\* The 6-bit value of a character; the decoder reads both alphabets.
B64Val(c) == IF c = "+" THEN 62 ELSE IF c = "/" THEN 63 ELSE B64Table[c]

\* The bytes of a text (UTF-8 of ASCII text: one byte a character).
Bytes(s) == [i \in 1..Len(s) |-> CodeOf(s[i])]

\* Three bytes give four characters; one or two left-over bytes give two or
\* three, and base64url writes no padding.
RECURSIVE B64Encode(_)
B64Encode(b) ==
    IF Len(b) = 0 THEN <<>>
    ELSE IF Len(b) = 1 THEN <<B64[(b[1] \div 4) + 1], B64[(b[1] % 4) * 16 + 1]>>
    ELSE IF Len(b) = 2
    THEN <<B64[(b[1] \div 4) + 1], B64[(b[1] % 4) * 16 + (b[2] \div 16) + 1],
           B64[(b[2] % 16) * 4 + 1]>>
    ELSE <<B64[(b[1] \div 4) + 1], B64[(b[1] % 4) * 16 + (b[2] \div 16) + 1],
           B64[(b[2] % 16) * 4 + (b[3] \div 64) + 1], B64[(b[3] % 64) + 1]>>
         \o B64Encode(SubSeq(b, 4, Len(b)))

\* The text up to the first "=", where the decoder stops.
RECURSIVE UpToPad(_)
UpToPad(s) == IF s = <<>> \/ Head(s) = "=" THEN <<>> ELSE <<Head(s)>> \o UpToPad(Tail(s))

\* The 6-bit values of the legal characters; any other character is skipped.
Sextets(s) ==
    LET legal == SelectSeq(UpToPad(s), LAMBDA c : c \in B64Set)
    IN [i \in 1..Len(legal) |-> B64Val(legal[i])]

\* Four values give three bytes; two or three left-over values give one or two
\* bytes, and a single left-over value gives none.
RECURSIVE B64Decode(_)
B64Decode(x) ==
    IF Len(x) < 2 THEN <<>>
    ELSE IF Len(x) = 2 THEN <<x[1] * 4 + (x[2] \div 16)>>
    ELSE IF Len(x) = 3
    THEN <<x[1] * 4 + (x[2] \div 16), (x[2] % 16) * 16 + (x[3] \div 4)>>
    ELSE <<x[1] * 4 + (x[2] \div 16), (x[2] % 16) * 16 + (x[3] \div 4),
           (x[3] % 4) * 64 + x[4]>>
         \o B64Decode(SubSeq(x, 5, Len(x)))

ToBase64Url(text) == B64Encode(Bytes(text))

FromBase64Url(s) == LET b == B64Decode(Sextets(s)) IN [i \in 1..Len(b) |-> CharOf(b[i])]

-----------------------------------------------------------------------------
(* The cursor codec *)

KServiceDate == <<"s", "e", "r", "v", "i", "c", "e", "D", "a", "t", "e">>
KSavedCount == <<"s", "a", "v", "e", "d", "C", "o", "u", "n", "t">>
KCreatedAtMs == <<"c", "r", "e", "a", "t", "e", "d", "A", "t", "M", "s">>

\* encodeCursor(obj): the text, or the error thrown: JSON.stringify gives
\* undefined for undefined, and Buffer.from(undefined) throws.
encodeCursor(obj) ==
    IF obj.t = "undefined"
    THEN [ok |-> FALSE, s |-> <<>>, msg |-> "Failed to encode pagination cursor"]
    ELSE [ok |-> TRUE, s |-> ToBase64Url(Stringify(obj)), msg |-> ""]

\* CursorShapeOk without its second branch: only the Recent shape is known.
CursorShapeOk_RecentOnly(decoded) ==
    /\ HasKey(decoded, KServiceDate) /\ HasKey(decoded, KCreatedAtMs)
    /\ TypeOf(Get(decoded, KServiceDate)) = "string"
    /\ TypeOf(Get(decoded, KCreatedAtMs)) = "number"

\* The shape test of decodeCursor on the parsed value.
CursorShapeOk(decoded) ==
    IF HasKey(decoded, KServiceDate) /\ HasKey(decoded, KCreatedAtMs)
    THEN TypeOf(Get(decoded, KServiceDate)) = "string"
         /\ TypeOf(Get(decoded, KCreatedAtMs)) = "number"
    ELSE IF HasKey(decoded, KSavedCount) /\ HasKey(decoded, KCreatedAtMs)
    THEN TypeOf(Get(decoded, KSavedCount)) = "number"
         /\ TypeOf(Get(decoded, KCreatedAtMs)) = "number"
    ELSE FALSE

\* decodeCursor without the test of the field types: any parsed object is a cursor.
decodeCursor_Unchecked(s) ==
    IF ~s.p \/ s.s = <<>> THEN JsNull
    ELSE LET Checked(parsed) ==
                 IF ~parsed.ok THEN JsNull
                 ELSE IF TypeOf(parsed.v) # "object" \/ parsed.v.t = "null" THEN JsNull
                 ELSE parsed.v
         IN Checked(JsonParse(FromBase64Url(s.s)))

\* decodeCursor(s); s is an optional text, [p |-> present, s |-> text].
decodeCursor(s) ==
    IF ~s.p \/ s.s = <<>> THEN JsNull
    ELSE LET Checked(parsed) ==
                 IF ~parsed.ok THEN JsNull
                 ELSE IF TypeOf(parsed.v) # "object" \/ parsed.v.t = "null" THEN JsNull
                 ELSE IF ~CursorShapeOk(parsed.v) THEN JsNull
                 ELSE parsed.v
         IN Checked(JsonParse(FromBase64Url(s.s)))

-----------------------------------------------------------------------------
(* Dates: Date.UTC(year, month, day) as a day number, and the first ten     *)
(* characters of toISOString() of that day.                                  *)

\* Days from 1970-01-01 to the first of month m (1..12) of year y, plus d - 1.
DaysFromCivil(y, m, d) ==
    LET yy == IF m <= 2 THEN y - 1 ELSE y
        era == yy \div 400
        yoe == yy - era * 400
        mp == IF m > 2 THEN m - 3 ELSE m + 9
        doy == ((153 * mp + 2) \div 5) + d - 1
        doe == yoe * 365 + (yoe \div 4) - (yoe \div 100) + doy
    IN era * 146097 + doe - 719468

\* The [y, m, d] of a day number.
CivilFromDays(z0) ==
    LET z == z0 + 719468
        era == z \div 146097
        doe == z - era * 146097
        yoe == (doe - (doe \div 1460) + (doe \div 36524) - (doe \div 146096)) \div 365
        doy == doe - (365 * yoe + (yoe \div 4) - (yoe \div 100))
        mp == (5 * doy + 2) \div 153
        d == doy - ((153 * mp + 2) \div 5) + 1
        m == IF mp < 10 THEN mp + 3 ELSE mp - 9
    IN [y |-> yoe + era * 400 + (IF m <= 2 THEN 1 ELSE 0), m |-> m, d |-> d]

\* Date.UTC(year, month, day) in days: month is 0-based and may be 12 (January of
\* the next year), day may be 0 (the day before the first).
DateUTC(year, month, day) ==
    DaysFromCivil(year + (month \div 12), (month % 12) + 1, 1) + day - 1

\* n in decimal, zero-padded to at least w digits.
RECURSIVE Pad(_, _)
Pad(n, w) == IF Len(NatToStr(n)) >= w THEN NatToStr(n) ELSE <<"0">> \o Pad(n, w - 1)

\* d.toISOString().slice(0, 10) for a day of the years 0..9999.
IsoDate(day) ==
    LET c == CivilFromDays(day) IN Pad(c.y, 4) \o <<"-">> \o Pad(c.m, 2) \o <<"-">> \o Pad(c.d, 2)

-----------------------------------------------------------------------------
(* parseMonthRange *)

MinYear == 2000
MaxYear == 2100

MonthNull == [ok |-> FALSE, start |-> <<>>, end |-> <<>>]

\* /^\d{4}-\d{2}$/.test(month)
MatchesYYYYMM(month) ==
    /\ Len(month) = 7
    /\ \A i \in {1, 2, 3, 4, 6, 7} : IsDigit(month[i])
    /\ month[5] = "-"

\* parseMonthRange whose end is the first day of the next month.
parseMonthRange_NextFirst(month) ==
    IF ~MatchesYYYYMM(month) THEN MonthNull
    ELSE LET year == DigitsToNat(SubSeq(month, 1, 4))
             monthNum == DigitsToNat(SubSeq(month, 6, 7))
         IN IF monthNum < 1 \/ monthNum > 12 \/ year < MinYear \/ year > MaxYear
            THEN MonthNull
            ELSE [ok |-> TRUE,
                  start |-> IsoDate(DateUTC(year, monthNum - 1, 1)),
                  end |-> IsoDate(DateUTC(year, monthNum, 1))]

\* parseMonthRange(month): the range, or MonthNull for null.
parseMonthRange(month) ==
    IF ~MatchesYYYYMM(month) THEN MonthNull
    ELSE LET year == DigitsToNat(SubSeq(month, 1, 4))
             monthNum == DigitsToNat(SubSeq(month, 6, 7))
         IN IF monthNum < 1 \/ monthNum > 12 \/ year < MinYear \/ year > MaxYear
            THEN MonthNull
            ELSE [ok |-> TRUE,
                  start |-> IsoDate(DateUTC(year, monthNum - 1, 1)),
                  end |-> IsoDate(DateUTC(year, monthNum, 0))]

-----------------------------------------------------------------------------
(* validateQueryParams.  A query parameter is an optional text,             *)
(* [p |-> present, s |-> text].                                              *)

NoText == [p |-> FALSE, s |-> <<>>]
SomeText(s) == [p |-> TRUE, s |-> s]

\* x?.trim()
TrimOpt(x) == IF x.p THEN SomeText(Trim(x.s)) ELSE NoText

\* x?.trim() || undefined
TrimOrUndefined(x) == IF x.p /\ Trim(x.s) # <<>> THEN SomeText(Trim(x.s)) ELSE NoText

\* parseInt(s, 10): leading whitespace, an optional sign, then the longest run of
\* digits; NaN when there is no digit.
parseInt(s) ==
    LET t == TrimLeft(s)
        signed == t # <<>> /\ Head(t) \in {"+", "-"}
        d == IF signed THEN 2 ELSE 1
        run == DigitRun(t, d)
        mag == DigitsToNat(SubSeq(t, d, d + run - 1))
    IN IF run = 0 THEN [nan |-> TRUE, n |-> 0]
       ELSE [nan |-> FALSE, n |-> IF signed /\ Head(t) = "-" THEN 0 - mag ELSE mag]

Min(a, b) == IF a < b THEN a ELSE b
Max(a, b) == IF a > b THEN a ELSE b

DefaultLimit == 20
MinLimit == 1
MaxLimit == 50

\* The limit without the lower clamp.
NormalizeLimit_NoFloor(limitRaw) ==
    LET limitParam == TrimOpt(limitRaw)
        parsedLimit == IF limitParam.p /\ limitParam.s # <<>>
                       THEN parseInt(limitParam.s)
                       ELSE [nan |-> FALSE, n |-> DefaultLimit]
    IN IF parsedLimit.nan THEN DefaultLimit ELSE Min(parsedLimit.n, MaxLimit)

\* The limit (lines 148-150).
NormalizeLimit(limitRaw) ==
    LET limitParam == TrimOpt(limitRaw)
        parsedLimit == IF limitParam.p /\ limitParam.s # <<>>
                       THEN parseInt(limitParam.s)
                       ELSE [nan |-> FALSE, n |-> DefaultLimit]
    IN IF parsedLimit.nan THEN DefaultLimit
       ELSE Min(Max(MinLimit, parsedLimit.n), MaxLimit)

SRecent == <<"r", "e", "c", "e", "n", "t">>
SMostSaved == <<"m", "o", "s", "t", "S", "a", "v", "e", "d">>

\* The sort mode (lines 144-145).
NormalizeSort(sortRaw) ==
    LET sortParam == TrimOpt(sortRaw)
    IN IF sortParam.p /\ sortParam.s = SMostSaved THEN "mostSaved" ELSE "recent"

\* The month text built from the year and month parameters (lines 155-163).
CombineMonth(yearValue, monthValue, currentYear) ==
    IF yearValue.p /\ monthValue.p THEN SomeText(yearValue.s \o <<"-">> \o monthValue.s)
    ELSE IF monthValue.p THEN SomeText(NatToStr(currentYear) \o <<"-">> \o monthValue.s)
    ELSE NoText

MaxCategoryIdLen == 100
MaxEpisode == 10000

\* categoryId.length > 100 || /[<>"']/.test(categoryId)
BadCategoryId(c) ==
    Len(c) > MaxCategoryIdLen \/ \E i \in 1..Len(c) : c[i] \in {"<", ">", "\"", "'"}

\* The episode parameter is kept as typed when parseInt of it is in 1..9999.
EpisodeOk(e) == LET n == parseInt(e) IN ~n.nan /\ n.n > 0 /\ n.n < MaxEpisode

MsgInvalidMonth ==
    <<"I", "n", "v", "a", "l", "i", "d", " ", "m", "o", "n", "t", "h", " ", "f", "o",
      "r", "m", "a", "t", ":", " ">>
MsgExpected ==
    <<".", " ", "E", "x", "p", "e", "c", "t", "e", "d", " ", "Y", "Y", "Y", "Y", "-",
      "M", "M", " ", "f", "o", "r", "m", "a", "t", ".">>
MsgInvalidCategoryId ==
    <<"I", "n", "v", "a", "l", "i", "d", " ", "c", "a", "t", "e", "g", "o", "r", "y",
      "I", "d", " ", "f", "o", "r", "m", "a", "t">>
MsgInvalidEpisode ==
    <<"I", "n", "v", "a", "l", "i", "d", " ", "e", "p", "i", "s", "o", "d", "e", " ",
      "n", "u", "m", "b", "e", "r", " ", "f", "o", "r", "m", "a", "t">>

\* The normalized query, or the error thrown: err is the message, empty when
\* nothing was thrown.
Query(err, categoryId, month, episode, sort, limit, cursor) ==
    [err |-> err, categoryId |-> categoryId, month |-> month, episode |-> episode,
     sort |-> sort, limit |-> limit, cursor |-> cursor]

QueryError(msg) == Query(msg, NoText, NoText, NoText, "recent", 0, JsNull)

validateQueryParams(query, currentYear) ==
    LET categoryId == TrimOrUndefined(query.categoryId)
        monthValue == TrimOrUndefined(query.month)
        yearValue == TrimOrUndefined(query.year)
        episodeValue == TrimOrUndefined(query.episode)
        sort == NormalizeSort(query.sort)
        limit == NormalizeLimit(query.limit)
        cursor == decodeCursor(TrimOpt(query.cursor))
        month == CombineMonth(yearValue, monthValue, currentYear)
    IN IF month.p /\ ~parseMonthRange(month.s).ok THEN QueryError(MsgInvalidMonth \o month.s \o MsgExpected)
       ELSE IF categoryId.p /\ BadCategoryId(categoryId.s)
       THEN QueryError(MsgInvalidCategoryId)
       ELSE IF episodeValue.p /\ ~EpisodeOk(episodeValue.s)
       THEN QueryError(MsgInvalidEpisode)
       ELSE Query(<<>>, categoryId, month, episodeValue, sort, limit, cursor)

-----------------------------------------------------------------------------
(* GET /api/clips.  A stored clip is [id, categoryId, serviceDate, episode, *)
(* savedCount, createdAtMs]: an empty serviceDate or episode is a missing    *)
(* field, createdAtMs = 0 is a createdAt that is no Timestamp (the write     *)
(* paths store an ISO string), for which toMillis does not exist.            *)

CategoryFetchLimit == 1000

Clip(id, categoryId, serviceDate, episode, savedCount, createdAtMs) ==
    [id |-> id, categoryId |-> categoryId, serviceDate |-> serviceDate,
     episode |-> episode, savedCount |-> savedCount, createdAtMs |-> createdAtMs]

\* query.where("categoryId", "==", categoryId).limit(fetchLimit).get(): the
\* documents in document-id order, the order storage keeps them in.
Fetch(storage, categoryId, fetchLimit) ==
    LET matching == IF categoryId.p
                    THEN SelectSeq(storage, LAMBDA d : d.categoryId = categoryId.s)
                    ELSE storage
    IN SubSeq(matching, 1, Min(Len(matching), fetchLimit))

\* The first filter: an item whose id was seen earlier in the list is dropped.
\* (Nothing is dropped when the ids are all different.)
Dedupe(items) ==
    IF Cardinality({items[i].id : i \in 1..Len(items)}) = Len(items) THEN items
    ELSE LET keep == {i \in 1..Len(items) : \A j \in 1..(i - 1) : items[j].id # items[i].id}
         IN [k \in 1..Cardinality(keep) |->
                items[CHOOSE i \in keep : Cardinality({j \in keep : j <= i}) = k]]

\* ep.match(/\d+/): where the first run of digits starts, 0 when there is none.
RECURSIVE FirstDigitAt(_, _)
FirstDigitAt(ep, i) ==
    IF i > Len(ep) THEN 0 ELSE IF IsDigit(ep[i]) THEN i ELSE FirstDigitAt(ep, i + 1)

\* ep.match(/\d+/)?.[0]: the first run of digits, as text; NoText when none.
FirstDigits(ep) ==
    LET i == FirstDigitAt(ep, 1)
    IN IF i = 0 THEN NoText ELSE SomeText(SubSeq(ep, i, i + DigitRun(ep, i) - 1))

\* The second filter (lines 292-309).
PassesFilters(item, month, episode) ==
    LET monthRange == IF month.p THEN parseMonthRange(month.s) ELSE MonthNull
    IN IF month.p /\ monthRange.ok /\ item.serviceDate # <<>>
       THEN StrLeq(monthRange.start, item.serviceDate)
            /\ StrLeq(item.serviceDate, monthRange.end)
       ELSE IF episode.p
       THEN LET itemEpisodeNumber == IF item.episode # <<>> THEN FirstDigits(item.episode)
                                     ELSE NoText
            IN itemEpisodeNumber.p /\ itemEpisodeNumber.s = episode.s
       ELSE TRUE

\* getEpisodeNumber(ep)
getEpisodeNumber(ep) ==
    LET m == FirstDigits(ep) IN IF m.p THEN DigitsToNat(m.s) ELSE 0

\* The items of each episode number, larger numbers first.
RECURSIVE ByEpisodeFrom(_, _)
ByEpisodeFrom(items, nums) ==
    IF nums = {} THEN <<>>
    ELSE LET top == CHOOSE n \in nums : \A k \in nums : k <= n
         IN SelectSeq(items, LAMBDA x : getEpisodeNumber(x.episode) = top)
            \o ByEpisodeFrom(items, nums \ {top})

\* The sort with the comparator turned round: smaller numbers first.
SortByEpisode_Ascending(items) ==
    LET Rev(s) == [i \in 1..Len(s) |-> s[Len(s) + 1 - i]]
    IN Rev(ByEpisodeFrom(Rev(items),
                         {getEpisodeNumber(items[i].episode) : i \in 1..Len(items)}))

\* items.sort((a, b) => bNum - aNum): a stable sort, so items of one episode
\* number keep their order.
SortByEpisode(items) ==
    ByEpisodeFrom(items, {getEpisodeNumber(items[i].episode) : i \in 1..Len(items)})

\* The cursor built from the first row storage returned instead of the last.
NextCursorFor_FirstRow(docs, sort, now) ==
    LET lastData == docs[1]
        createdAtMs == IF lastData.createdAtMs # 0 THEN lastData.createdAtMs ELSE now
    IN IF sort = "mostSaved"
       THEN encodeCursor(JsObj(<<Fld(KSavedCount, JsNum(lastData.savedCount)),
                                 Fld(KCreatedAtMs, JsNum(createdAtMs))>>))
       ELSE encodeCursor(JsObj(<<Fld(KServiceDate, JsStr(lastData.serviceDate)),
                                 Fld(KCreatedAtMs, JsNum(createdAtMs))>>))

\* The cursor to emit after a full page (lines 343-359); now is Date.now().
NextCursorFor(docs, sort, now) ==
    LET lastData == docs[Len(docs)]
        createdAtMs == IF lastData.createdAtMs # 0 THEN lastData.createdAtMs ELSE now
    IN IF sort = "mostSaved"
       THEN encodeCursor(JsObj(<<Fld(KSavedCount, JsNum(lastData.savedCount)),
                                 Fld(KCreatedAtMs, JsNum(createdAtMs))>>))
       ELSE encodeCursor(JsObj(<<Fld(KServiceDate, JsStr(lastData.serviceDate)),
                                 Fld(KCreatedAtMs, JsNum(createdAtMs))>>))

\* message.includes(sub)
Includes(msg, sub) == \E i \in 1..(Len(msg) - Len(sub) + 1) : StartsAt(msg, i, sub)

SInvalidMonthFormat ==
    <<"I", "n", "v", "a", "l", "i", "d", " ", "m", "o", "n", "t", "h", " ", "f", "o",
      "r", "m", "a", "t">>
SInvalidCategoryId ==
    <<"I", "n", "v", "a", "l", "i", "d", " ", "c", "a", "t", "e", "g", "o", "r", "y",
      "I", "d">>
SIndex == <<"i", "n", "d", "e", "x">>
SPermission == <<"p", "e", "r", "m", "i", "s", "s", "i", "o", "n">>
SQuota == <<"q", "u", "o", "t", "a">>
SRate == <<"r", "a", "t", "e">>

\* The classification with the "permission" test ahead of the "index" test.
ErrorStatus_PermissionFirst(message) ==
    IF Includes(message, SInvalidMonthFormat) \/ Includes(message, SInvalidCategoryId)
    THEN 400
    ELSE IF Includes(message, SPermission) THEN 403
    ELSE IF Includes(message, SIndex) THEN 503
    ELSE IF Includes(message, SQuota) \/ Includes(message, SRate) THEN 429
    ELSE 500

\* The status of the error response (lines 411-431).
ErrorStatus(message) ==
    IF Includes(message, SInvalidMonthFormat) \/ Includes(message, SInvalidCategoryId)
    THEN 400
    ELSE IF Includes(message, SIndex) THEN 503
    ELSE IF Includes(message, SPermission) THEN 403
    ELSE IF Includes(message, SQuota) \/ Includes(message, SRate) THEN 429
    ELSE 500

MsgIndexRequired ==
    <<"D", "a", "t", "a", "b", "a", "s", "e", " ", "i", "n", "d", "e", "x", " ",
      "r", "e", "q", "u", "i", "r", "e", "d", ".", " ", "P", "l", "e", "a", "s",
      "e", " ", "c", "h", "e", "c", "k", " ", "F", "i", "r", "e", "s", "t", "o",
      "r", "e", " ", "i", "n", "d", "e", "x", "e", "s", ".">>
MsgPermissionDenied ==
    <<"D", "a", "t", "a", "b", "a", "s", "e", " ", "p", "e", "r", "m", "i", "s",
      "s", "i", "o", "n", " ", "d", "e", "n", "i", "e", "d">>
MsgRateLimits ==
    <<"S", "e", "r", "v", "i", "c", "e", " ", "t", "e", "m", "p", "o", "r", "a",
      "r", "i", "l", "y", " ", "u", "n", "a", "v", "a", "i", "l", "a", "b", "l",
      "e", " ", "d", "u", "e", " ", "t", "o", " ", "r", "a", "t", "e", " ", "l",
      "i", "m", "i", "t", "s">>

\* The error text sent (lines 411-431): the message of the error, or the text that
\* replaces it.
ErrorMessage(message) ==
    IF Includes(message, SInvalidMonthFormat) \/ Includes(message, SInvalidCategoryId)
    THEN message
    ELSE IF Includes(message, SIndex) THEN MsgIndexRequired
    ELSE IF Includes(message, SPermission) THEN MsgPermissionDenied
    ELSE IF Includes(message, SQuota) \/ Includes(message, SRate) THEN MsgRateLimits
    ELSE message

\* A response: status 200 with items, nextCursor and meta (count, hasMore and the
\* echo of the query), or an error status with the error text.  Left out: the
\* wall-clock queryTimeMs, the timestamp, the request id, the headers.
Response(status, items, nextCursor, echo) ==
    [status |-> status, items |-> items, nextCursor |-> nextCursor,
     count |-> Len(items), hasMore |-> nextCursor.p, query |-> echo, error |-> <<>>]

NoEcho ==
    [categoryId |-> NoText, month |-> NoText, episode |-> NoText, sort |-> "recent",
     limit |-> 0, hasCursor |-> FALSE]

ErrorResponse(message) ==
    [Response(ErrorStatus(message), <<>>, NoText, NoEcho)
        EXCEPT !.error = ErrorMessage(message)]

\* The response with the items of a page (lines 332-397).
PageResponse(items, docs, q, now) ==
    LET emit == ~q.categoryId.p /\ Len(items) = q.limit /\ Len(docs) > 0
        Send(enc) ==
            IF ~enc.ok THEN ErrorResponse(<<>>)
            ELSE Response(200, items,
                          IF emit /\ enc.s # <<>> THEN SomeText(enc.s) ELSE NoText,
                          [categoryId |-> q.categoryId, month |-> q.month,
                           episode |-> q.episode, sort |-> q.sort, limit |-> q.limit,
                           hasCursor |-> q.cursor # JsNull])
    IN Send(IF emit THEN NextCursorFor(docs, q.sort, now)
            ELSE [ok |-> TRUE, s |-> <<>>, msg |-> ""])

\* The page built from the fetched documents (lines 248-330): the filters, the
\* sort, and the slice to limit when no category is asked for.
Page(docs, q, now) ==
    LET Slice(sorted) == IF q.categoryId.p THEN sorted
                         ELSE SubSeq(sorted, 1, Min(Len(sorted), q.limit))
    IN PageResponse(
           Slice(SortByEpisode(SelectSeq(Dedupe(docs),
                     LAMBDA item : PassesFilters(item, q.month, q.episode)))),
           docs, q, now)

\* The handler after validateQueryParams: q is the normalized query, fault the
\* message of the error storage threw, if it threw.
Respond(storage, q, now, fault) ==
    IF q.err # <<>> THEN ErrorResponse(q.err)
    ELSE IF fault.p THEN ErrorResponse(fault.s)
    ELSE Page(Fetch(storage, q.categoryId,
                    IF q.categoryId.p THEN CategoryFetchLimit ELSE q.limit), q, now)

\* router.get('/'): the response to query, with storage as it is.
ListHandler(storage, query, currentYear, now, fault) ==
    Respond(storage, validateQueryParams(query, currentYear), now, fault)

-----------------------------------------------------------------------------
(* lib/parse: parseTimeToSeconds.  It returns a number of seconds or throws *)
(* an Error; the model returns a record with the value or the message.       *)

Seconds(n) == [ok |-> TRUE, value |-> n, error |-> <<>>]
TimeError(message) == [ok |-> FALSE, value |-> 0, error |-> message]
NoSeconds == TimeError(<<>>)

\* The messages of the errors, the templated ones up to the value they show.
TimeErrors ==
    [numericInput |->
        <<"N", "u", "m", "e", "r", "i", "c", " ", "i", "n", "p", "u", "t", " ", "m",
          "u", "s", "t", " ", "b", "e", " ", "a", " ", "n", "o", "n", "-", "n", "e",
          "g", "a", "t", "i", "v", "e", " ", "i", "n", "t", "e", "g", "e", "r">>,
     empty |->
        <<"T", "i", "m", "e", " ", "i", "n", "p", "u", "t", " ", "c", "a", "n", "n",
          "o", "t", " ", "b", "e", " ", "e", "m", "p", "t", "y">>,
     negative |->
        <<"T", "i", "m", "e", " ", "c", "a", "n", "n", "o", "t", " ", "b", "e", " ",
          "n", "e", "g", "a", "t", "i", "v", "e">>,
     useFormatSeconds |->
        <<"U", "s", "e", " ", "f", "o", "r", "m", "a", "t", ":", " ", "s", "e", "c",
          "o", "n", "d", "s", " ", "(", "1", "2", "3", ")", ",", " ", "m", "m", ":",
          "s", "s", " ", "(", "1", "2", ":", "3", "4", ")", ",", " ", "o", "r", " ",
          "h", "h", ":", "m", "m", ":", "s", "s", " ", "(", "1", ":", "2", "3", ":",
          "4", "5", ")">>,
     useFormat |->
        <<"U", "s", "e", " ", "f", "o", "r", "m", "a", "t", ":", " ", "m", "m", ":",
          "s", "s", " ", "o", "r", " ", "h", "h", ":", "m", "m", ":", "s", "s">>,
     invalidComponent |->
        <<"I", "n", "v", "a", "l", "i", "d", " ", "t", "i", "m", "e", " ", "c", "o",
          "m", "p", "o", "n", "e", "n", "t", ":", " ">>,
     lessThan60 |->
        <<"M", "i", "n", "u", "t", "e", "s", " ", "a", "n", "d", " ", "s", "e", "c",
          "o", "n", "d", "s", " ", "m", "u", "s", "t", " ", "b", "e", " ", "l", "e",
          "s", "s", " ", "t", "h", "a", "n", " ", "6", "0", ",", " ", "g", "o", "t",
          ":", " ">>,
     minutes1440 |->
        <<"M", "i", "n", "u", "t", "e", "s", " ", "c", "a", "n", "n", "o", "t", " ",
          "e", "x", "c", "e", "e", "d", " ", "1", "4", "4", "0", " ", "(", "2", "4",
          " ", "h", "o", "u", "r", "s", ")", ",", " ", "g", "o", "t", ":", " ">>,
     exceeds24Hours |->
        <<"T", "i", "m", "e", " ", "c", "a", "n", "n", "o", "t", " ", "e", "x", "c",
          "e", "e", "d", " ", "2", "4", " ", "h", "o", "u", "r", "s">>]

\* Number.isInteger(v)
IsInteger(v) == v.t = "number" /\ v.s = <<>>

\* /^\d+$/.test(s)
AllDigits(s) == s # <<>> /\ \A i \in 1..Len(s) : IsDigit(s[i])

\* s.split(sep), sep one character
RECURSIVE Split(_, _)
Split(s, sep) ==
    IF \E i \in 1..Len(s) : s[i] = sep
    THEN LET i == CHOOSE k \in 1..Len(s) : s[k] = sep /\ \A j \in 1..(k - 1) : s[j] # sep
         IN <<SubSeq(s, 1, i - 1)>> \o Split(SubSeq(s, i + 1, Len(s)), sep)
    ELSE <<s>>

\* The callback accepting a minutes or seconds part of 60.
TimePartError_Accepts60(parts, index) ==
    LET part == parts[index + 1]
        num == parseInt(part)
    IN IF num.nan \/ num.n < 0
       THEN SomeText(TimeErrors.invalidComponent \o <<"\"">> \o part \o <<"\"">>)
       ELSE IF index > 0 /\ num.n > 60
       THEN SomeText(TimeErrors.lessThan60 \o NatToStr(num.n))
       ELSE IF index = 0 /\ Len(parts) = 2 /\ num.n > 1440
       THEN SomeText(TimeErrors.minutes1440 \o NatToStr(num.n))
       ELSE NoText

\* The callback of parts.map on the part at index (from 0): the error it throws,
\* or no error.
TimePartError(parts, index) ==
    LET part == parts[index + 1]
        num == parseInt(part)
    IN IF num.nan \/ num.n < 0
       THEN SomeText(TimeErrors.invalidComponent \o <<"\"">> \o part \o <<"\"">>)
       ELSE IF index > 0 /\ num.n >= 60
       THEN SomeText(TimeErrors.lessThan60 \o NatToStr(num.n))
       ELSE IF index = 0 /\ Len(parts) = 2 /\ num.n > 1440
       THEN SomeText(TimeErrors.minutes1440 \o NatToStr(num.n))
       ELSE NoText

\* The total with the hours of a three-part input counted as minutes.
TimeTotal_HoursAsMinutes(numericParts) ==
    LET totalSeconds ==
            IF Len(numericParts) = 3
            THEN numericParts[1] * 60 + numericParts[2] * 60 + numericParts[3]
            ELSE numericParts[1] * 60 + numericParts[2]
    IN IF totalSeconds > 86400 THEN TimeError(TimeErrors.exceeds24Hours) ELSE Seconds(totalSeconds)

\* The total without the check of the total.
TimeTotal_NoDayLimit(numericParts) ==
    Seconds(IF Len(numericParts) = 3
            THEN numericParts[1] * 3600 + numericParts[2] * 60 + numericParts[3]
            ELSE numericParts[1] * 60 + numericParts[2])

\* The total of the numeric parts, with the check of the total.
TimeTotal(numericParts) ==
    LET totalSeconds ==
            IF Len(numericParts) = 3
            THEN numericParts[1] * 3600 + numericParts[2] * 60 + numericParts[3]
            ELSE numericParts[1] * 60 + numericParts[2]
    IN IF totalSeconds > 86400 THEN TimeError(TimeErrors.exceeds24Hours) ELSE Seconds(totalSeconds)

\* The colon path once the input is split.
TimeOfParts(parts) ==
    IF Len(parts) < 2 \/ Len(parts) > 3 THEN TimeError(TimeErrors.useFormat)
    ELSE IF \E i \in 0..(Len(parts) - 1) : TimePartError(parts, i).p
    THEN LET first == CHOOSE i \in 0..(Len(parts) - 1) :
                          /\ TimePartError(parts, i).p
                          /\ \A j \in 0..(i - 1) : ~TimePartError(parts, j).p
         IN TimeError(TimePartError(parts, first).s)
    ELSE TimeTotal([i \in 1..Len(parts) |-> parseInt(parts[i]).n])

\* The string path on the trimmed input.
TimeOfText(trimmed) ==
    IF trimmed = <<>> THEN TimeError(TimeErrors.empty)
    ELSE IF AllDigits(trimmed)
    THEN IF DigitsToNat(trimmed) < 0 THEN TimeError(TimeErrors.negative)
         ELSE Seconds(DigitsToNat(trimmed))
    ELSE IF ~(\E i \in 1..Len(trimmed) : trimmed[i] = ":") THEN TimeError(TimeErrors.useFormatSeconds)
    ELSE TimeOfParts(Split(trimmed, ":"))

parseTimeToSeconds(input) ==
    IF TypeOf(input) = "number"
    THEN IF ~IsInteger(input) \/ input.n < 0 THEN TimeError(TimeErrors.numericInput)
         ELSE Seconds(input.n)
    ELSE TimeOfText(Trim(IF input.t = "string" THEN input.s ELSE <<>>))

\* lib/parse.js: the parseTimeToSeconds the routes require, translated on its own.

\* Lines 39-56: the callback of parts.map on the part at index (from 0).
TimePartErrorJs(parts, index) ==
    LET num == parseInt(parts[index + 1])
    IN IF num.nan \/ num.n < 0
       THEN SomeText(TimeErrors.invalidComponent \o <<"\"">> \o parts[index + 1] \o <<"\"">>)
       ELSE IF index > 0 /\ num.n >= 60
       THEN SomeText(TimeErrors.lessThan60 \o NatToStr(num.n))
       ELSE IF index = 0 /\ Len(parts) = 2 /\ num.n > 1440
       THEN SomeText(TimeErrors.minutes1440 \o NatToStr(num.n))
       ELSE NoText

\* Lines 34-71: the colon path on the parts.
TimeOfPartsJs(parts) ==
    LET Bad == {i \in 0..(Len(parts) - 1) : TimePartErrorJs(parts, i).p}
        Total(numericParts) ==
            IF Len(numericParts) = 3
            THEN numericParts[1] * 3600 + numericParts[2] * 60 + numericParts[3]
            ELSE IF Len(numericParts) = 2 THEN numericParts[1] * 60 + numericParts[2]
            ELSE 0
        Limited(totalSeconds) ==
            IF totalSeconds > 86400 THEN TimeError(TimeErrors.exceeds24Hours)
            ELSE Seconds(totalSeconds)
    IN IF Len(parts) < 2 \/ Len(parts) > 3 THEN TimeError(TimeErrors.useFormat)
       ELSE IF Bad # {}
       THEN TimeError(TimePartErrorJs(parts, CHOOSE i \in Bad : \A j \in Bad : i <= j).s)
       ELSE Limited(Total([i \in 1..Len(parts) |-> parseInt(parts[i]).n]))

\* Lines 7-72.
parseTimeToSecondsJs(input) ==
    IF TypeOf(input) = "number"
    THEN IF ~IsInteger(input) \/ input.n < 0 THEN TimeError(TimeErrors.numericInput)
         ELSE Seconds(input.n)
    ELSE LET Text(trimmed) ==
                 IF trimmed = <<>> THEN TimeError(TimeErrors.empty)
                 ELSE IF AllDigits(trimmed)
                 THEN IF DigitsToNat(trimmed) < 0 THEN TimeError(TimeErrors.negative)
                      ELSE Seconds(DigitsToNat(trimmed))
                 ELSE IF \A i \in 1..Len(trimmed) : trimmed[i] # ":"
                 THEN TimeError(TimeErrors.useFormatSeconds)
                 ELSE TimeOfPartsJs(Split(trimmed, ":"))
         IN Text(Trim(IF input.t = "string" THEN input.s ELSE <<>>))

-----------------------------------------------------------------------------
(* lib/title-override: validateClipTiming and detectSuspiciousTimePatterns. *)

ClipTimeData(startTimeSeconds, endTimeSeconds) ==
    [startTimeSeconds |-> startTimeSeconds, endTimeSeconds |-> endTimeSeconds]

ClipValidationResult(isValid, issues, severity, suggestedAction) ==
    [isValid |-> isValid, issues |-> issues, severity |-> severity,
     suggestedAction |-> suggestedAction]

\* The fixed pieces of the issue texts and the suggested actions.
TimingTexts ==
    [negativeDuration |->
        <<"N", "e", "g", "a", "t", "i", "v", "e", " ", "d", "u", "r", "a", "t", "i",
          "o", "n", ":", " ", "E", "n", "d", " ", "t", "i", "m", "e", " ", "(">>,
     isBeforeStart |->
        <<"s", ")", " ", "i", "s", " ", "b", "e", "f", "o", "r", "e", " ", "s", "t",
          "a", "r", "t", " ", "t", "i", "m", "e", " ", "(">>,
     zeroDuration |->
        <<"Z", "e", "r", "o", " ", "d", "u", "r", "a", "t", "i", "o", "n", ":", " ",
          "S", "t", "a", "r", "t", " ", "a", "n", "d", " ", "e", "n", "d", " ", "t",
          "i", "m", "e", "s", " ", "a", "r", "e", " ", "i", "d", "e", "n", "t", "i",
          "c", "a", "l">>,
     unusuallyLong |->
        <<"U", "n", "u", "s", "u", "a", "l", "l", "y", " ", "l", "o", "n", "g", " ",
          "c", "l", "i", "p", ":", " ">>,
     typicalMinutes |->
        <<" ", "m", "i", "n", "u", "t", "e", "s", " ", "(", "t", "y", "p", "i", "c",
          "a", "l", " ", "t", "e", "s", "t", "i", "m", "o", "n", "i", "e", "s", " ",
          "a", "r", "e", " ", "1", "-", "1", "0", " ", "m", "i", "n", "u", "t", "e",
          "s", ")">>,
     veryShort |->
        <<"V", "e", "r", "y", " ", "s", "h", "o", "r", "t", " ", "c", "l", "i", "p",
          ":", " ">>,
     tooBrief |->
        <<" ", "s", "e", "c", "o", "n", "d", "s", " ", "(", "m", "i", "g", "h", "t",
          " ", "b", "e", " ", "t", "o", "o", " ", "b", "r", "i", "e", "f", " ", "f",
          "o", "r", " ", "a", " ", "t", "e", "s", "t", "i", "m", "o", "n", "y", ")">>,
     veryLateStart |->
        <<"V", "e", "r", "y", " ", "l", "a", "t", "e", " ", "s", "t", "a", "r", "t",
          " ", "t", "i", "m", "e", ":", " ">>,
     intoVideo |->
        <<"m", " ", "i", "n", "t", "o", " ", "v", "i", "d", "e", "o", " ", "(", "m",
          "i", "g", "h", "t", " ", "b", "e", " ", "c", "o", "n", "v", "e", "r", "s",
          "i", "o", "n", " ", "e", "r", "r", "o", "r", ")">>,
     startConverted |->
        <<"S", "t", "a", "r", "t", " ", "t", "i", "m", "e", " ", "m", "i", "g", "h",
          "t", " ", "b", "e", " ", "i", "n", "c", "o", "r", "r", "e", "c", "t", "l",
          "y", " ", "c", "o", "n", "v", "e", "r", "t", "e", "d", ":", " ">>,
     endConverted |->
        <<"E", "n", "d", " ", "t", "i", "m", "e", " ", "m", "i", "g", "h", "t", " ",
          "b", "e", " ", "i", "n", "c", "o", "r", "r", "e", "c", "t", "l", "y", " ",
          "c", "o", "n", "v", "e", "r", "t", "e", "d", ":", " ">>,
     couldBe |->
        <<"s", " ", "c", "o", "u", "l", "d", " ", "b", "e", " ">>,
     noAction |->
        <<"N", "o", " ", "a", "c", "t", "i", "o", "n", " ", "n", "e", "e", "d", "e",
          "d">>,
     reviewImmediately |->
        <<"R", "e", "v", "i", "e", "w", " ", "i", "m", "m", "e", "d", "i", "a", "t",
          "e", "l", "y", " ", "-", " ", "l", "i", "k", "e", "l", "y", " ", "d", "a",
          "t", "a", " ", "c", "o", "r", "r", "u", "p", "t", "i", "o", "n">>,
     reviewWhenConvenient |->
        <<"R", "e", "v", "i", "e", "w", " ", "w", "h", "e", "n", " ", "c", "o", "n",
          "v", "e", "n", "i", "e", "n", "t", " ", "-", " ", "u", "n", "u", "s", "u",
          "a", "l", " ", "b", "u", "t", " ", "m", "i", "g", "h", "t", " ", "b", "e",
          " ", "v", "a", "l", "i", "d">>]

\* The pattern test from one hour on and with remainders up to two minutes.
TimePattern_JustOverAnHour(label, sec) ==
    IF sec > 3600 /\ sec % 3600 < 120 /\ sec \div 3600 < 90
    THEN <<label \o IntToStr(sec) \o TimingTexts.couldBe \o NatToStr(sec \div 3600) \o <<":">>
              \o Pad(sec % 3600, 2) \o <<" ", "(">> \o NatToStr(sec \div 3600)
              \o <<"m", " ">> \o NatToStr(sec % 3600) \o <<"s", ")">> >>
    ELSE <<>>

\* The pattern test without the limit of 90 on the minutes.
TimePattern_AnyMinutes(label, sec) ==
    IF sec > 7200 /\ sec % 3600 < 60
    THEN <<label \o IntToStr(sec) \o TimingTexts.couldBe \o NatToStr(sec \div 3600) \o <<":">>
              \o Pad(sec % 3600, 2) \o <<" ", "(">> \o NatToStr(sec \div 3600)
              \o <<"m", " ">> \o NatToStr(sec % 3600) \o <<"s", ")">> >>
    ELSE <<>>

\* One pattern test of detectSuspiciousTimePatterns, on the start or on the end
\* value: the messages it pushes (one or none).
TimePattern(label, sec) ==
    IF sec > 7200 /\ sec % 3600 < 60 /\ sec \div 3600 < 90
    THEN <<label \o IntToStr(sec) \o TimingTexts.couldBe \o NatToStr(sec \div 3600) \o <<":">>
              \o Pad(sec % 3600, 2) \o <<" ", "(">> \o NatToStr(sec \div 3600)
              \o <<"m", " ">> \o NatToStr(sec % 3600) \o <<"s", ")">> >>
    ELSE <<>>

detectSuspiciousTimePatterns(startSec, endSec) ==
    TimePattern(TimingTexts.startConverted, startSec) \o TimePattern(TimingTexts.endConverted, endSec)

\* issues and severity as the checks of validateClipTiming leave them.
Findings(issues, severity) == [issues |-> issues, severity |-> severity]

\* Check 1: negative duration.
CheckNegative(clip, duration, c) ==
    IF duration < 0
    THEN Findings(Append(c.issues, TimingTexts.negativeDuration \o IntToStr(clip.endTimeSeconds)
                                   \o TimingTexts.isBeforeStart \o IntToStr(clip.startTimeSeconds)
                                   \o <<"s", ")">>), "high")
    ELSE c

\* Check 2: zero duration.
CheckZero(duration, c) ==
    IF duration = 0 THEN Findings(Append(c.issues, TimingTexts.zeroDuration), "medium") ELSE c

\* Check 3: more than 30 minutes.
CheckLong(duration, c) ==
    IF duration > 1800
    THEN Findings(Append(c.issues, TimingTexts.unusuallyLong \o NatToStr(duration \div 60)
                                   \o TimingTexts.typicalMinutes), "high")
    ELSE c

\* Check 4 taking a clip of 30 seconds for a short one.
CheckShort_Through30(duration, c) ==
    IF duration > 0 /\ duration <= 30
    THEN Findings(Append(c.issues, TimingTexts.veryShort \o NatToStr(duration) \o TimingTexts.tooBrief), "low")
    ELSE c

\* Check 4: less than 30 seconds.
CheckShort(duration, c) ==
    IF duration > 0 /\ duration < 30
    THEN Findings(Append(c.issues, TimingTexts.veryShort \o NatToStr(duration) \o TimingTexts.tooBrief), "low")
    ELSE c

\* Check 5: a start more than 4 hours into the video.
CheckLateStart(clip, c) ==
    IF clip.startTimeSeconds > 14400
    THEN Findings(Append(c.issues, TimingTexts.veryLateStart
                                   \o NatToStr(clip.startTimeSeconds \div 3600) \o <<"h", " ">>
                                   \o NatToStr((clip.startTimeSeconds % 3600) \div 60)
                                   \o TimingTexts.intoVideo), "high")
    ELSE c

\* Check 6 setting the severity to medium whatever it was.
CheckPatterns_AlwaysMedium(suspiciousPatterns, c) ==
    IF Len(suspiciousPatterns) > 0
    THEN Findings(c.issues \o suspiciousPatterns, "medium")
    ELSE c

\* Check 6: the patterns of a conversion error.
CheckPatterns(suspiciousPatterns, c) ==
    IF Len(suspiciousPatterns) > 0
    THEN Findings(c.issues \o suspiciousPatterns,
                 IF c.severity = "low" THEN "medium" ELSE c.severity)
    ELSE c

\* The result built from the issues and the severity.
TimingResult(c) ==
    ClipValidationResult(Len(c.issues) = 0, c.issues, c.severity,
        IF c.severity = "high" THEN TimingTexts.reviewImmediately
        ELSE IF c.severity = "medium" THEN TimingTexts.reviewWhenConvenient
        ELSE TimingTexts.noAction)

TimingChecks(clip, duration) ==
    CheckPatterns(detectSuspiciousTimePatterns(clip.startTimeSeconds, clip.endTimeSeconds),
        CheckLateStart(clip,
            CheckShort(duration,
                CheckLong(duration,
                    CheckZero(duration,
                        CheckNegative(clip, duration, Findings(<<>>, "low")))))))

validateClipTiming(clip) ==
    TimingResult(TimingChecks(clip, clip.endTimeSeconds - clip.startTimeSeconds))

\* A clip of a batch: ClipTimeData with its id.
BatchClip(id, startTimeSeconds, endTimeSeconds) ==
    [id |-> id, startTimeSeconds |-> startTimeSeconds, endTimeSeconds |-> endTimeSeconds]

\* { ...clip, validation }
Flagged(clip, validation) ==
    [id |-> clip.id, startTimeSeconds |-> clip.startTimeSeconds,
     endTimeSeconds |-> clip.endTimeSeconds, validation |-> validation]

\* The lists and counters of batchValidateClips.
Batch(validClips, flaggedClips, highSeverity, mediumSeverity, lowSeverity) ==
    [validClips |-> validClips, flaggedClips |-> flaggedClips,
     highSeverity |-> highSeverity, mediumSeverity |-> mediumSeverity,
     lowSeverity |-> lowSeverity]

\* The body of the loop counting the severity of every clip, valid ones too.
BatchStep_CountsEvery(b, clip, validation) ==
    Batch(IF validation.isValid THEN Append(b.validClips, clip) ELSE b.validClips,
          IF validation.isValid THEN b.flaggedClips
          ELSE Append(b.flaggedClips, Flagged(clip, validation)),
          b.highSeverity + (IF validation.severity = "high" THEN 1 ELSE 0),
          b.mediumSeverity + (IF validation.severity = "medium" THEN 1 ELSE 0),
          b.lowSeverity + (IF validation.severity \notin {"high", "medium"} THEN 1 ELSE 0))

\* The body of the loop, for one clip and its validation.
BatchStep(b, clip, validation) ==
    IF validation.isValid
    THEN [b EXCEPT !.validClips = Append(@, clip)]
    ELSE Batch(b.validClips, Append(b.flaggedClips, Flagged(clip, validation)),
               b.highSeverity + (IF validation.severity = "high" THEN 1 ELSE 0),
               b.mediumSeverity + (IF validation.severity = "medium" THEN 1 ELSE 0),
               b.lowSeverity + (IF validation.severity \notin {"high", "medium"} THEN 1 ELSE 0))

\* The loop from clip i on.
RECURSIVE BatchLoop(_, _, _)
BatchLoop(batch, i, b) ==
    IF i > Len(batch) THEN b
    ELSE BatchLoop(batch, i + 1, BatchStep(b, batch[i], validateClipTiming(batch[i])))

\* The value returned from the lists and counters.
BatchResult(batch, b) ==
    [validClips |-> b.validClips, flaggedClips |-> b.flaggedClips,
     summary |-> [total |-> Len(batch), valid |-> Len(b.validClips),
                  flagged |-> Len(b.flaggedClips), highSeverity |-> b.highSeverity,
                  mediumSeverity |-> b.mediumSeverity, lowSeverity |-> b.lowSeverity]]

batchValidateClips(batch) == BatchResult(batch, BatchLoop(batch, 1, Batch(<<>>, <<>>, 0, 0, 0)))

\* No batch validated yet.
NoBatch == [validClips |-> <<>>, flaggedClips |-> <<>>, summary |-> <<>>]

\* No clip validated yet.
NoClipTime == ClipTimeData(0, 0)
NoValidation == ClipValidationResult(FALSE, <<>>, "low", <<>>)

-----------------------------------------------------------------------------
(* routes/admin clips: POST /manual and POST /import.  Left out: the videos  *)
(* collection, the extraction of the clip's video (its failure is recorded   *)
(* in the document and blocks nothing), the AI titles, the video URL (the    *)
(* request names the video by videoId; an import row has a link that         *)
(* extractVideoId accepts or not), and errors thrown by storage (status 500, *)
(* nothing written).                                                          *)

\* The error texts of the two routes, the templated ones up to the value they show.
WriteErrors ==
    [unauthorized |->
        <<"U", "n", "a", "u", "t", "h", "o", "r", "i", "z", "e", "d", " ", "a", "c",
          "c", "e", "s", "s">>,
     videoId |->
        <<"v", "i", "d", "e", "o", "I", "d", " ", "i", "s", " ", "r", "e", "q", "u",
          "i", "r", "e", "d", " ", "a", "n", "d", " ", "c", "a", "n", "n", "o", "t",
          " ", "b", "e", " ", "e", "m", "p", "t", "y">>,
     title |->
        <<"t", "i", "t", "l", "e", " ", "i", "s", " ", "r", "e", "q", "u", "i", "r",
          "e", "d", " ", "a", "n", "d", " ", "c", "a", "n", "n", "o", "t", " ", "b",
          "e", " ", "e", "m", "p", "t", "y">>,
     categoryId |->
        <<"c", "a", "t", "e", "g", "o", "r", "y", "I", "d", " ", "i", "s", " ", "r",
          "e", "q", "u", "i", "r", "e", "d", " ", "a", "n", "d", " ", "c", "a", "n",
          "n", "o", "t", " ", "b", "e", " ", "e", "m", "p", "t", "y">>,
     titleLong |->
        <<"t", "i", "t", "l", "e", " ", "m", "u", "s", "t", " ", "b", "e", " ", "2",
          "0", "0", " ", "c", "h", "a", "r", "a", "c", "t", "e", "r", "s", " ", "o",
          "r", " ", "l", "e", "s", "s">>,
     startTime |->
        <<"I", "n", "v", "a", "l", "i", "d", " ", "s", "t", "a", "r", "t", " ", "t",
          "i", "m", "e", ":", " ">>,
     endTime |->
        <<"I", "n", "v", "a", "l", "i", "d", " ", "e", "n", "d", " ", "t", "i", "m",
          "e", ":", " ">>,
     endBeforeStart |->
        <<"E", "n", "d", " ", "t", "i", "m", "e", " ", "m", "u", "s", "t", " ", "b",
          "e", " ", "g", "r", "e", "a", "t", "e", "r", " ", "t", "h", "a", "n", " ",
          "s", "t", "a", "r", "t", " ", "t", "i", "m", "e">>,
     tooLong |->
        <<"C", "l", "i", "p", " ", "d", "u", "r", "a", "t", "i", "o", "n", " ", "c",
          "a", "n", "n", "o", "t", " ", "e", "x", "c", "e", "e", "d", " ", "3", "0",
          " ", "m", "i", "n", "u", "t", "e", "s">>,
     tooShort |->
        <<"C", "l", "i", "p", " ", "d", "u", "r", "a", "t", "i", "o", "n", " ", "m",
          "u", "s", "t", " ", "b", "e", " ", "a", "t", " ", "l", "e", "a", "s", "t",
          " ", "5", " ", "s", "e", "c", "o", "n", "d", "s">>,
     categoryMissing |->
        <<"C", "a", "t", "e", "g", "o", "r", "y", " ", "n", "o", "t", " ", "f", "o",
          "u", "n", "d">>,
     noClips |->
        <<"N", "o", " ", "c", "l", "i", "p", "s", " ", "p", "r", "o", "v", "i", "d",
          "e", "d">>,
     tooMany |->
        <<"T", "o", "o", " ", "m", "a", "n", "y", " ", "c", "l", "i", "p", "s", ".",
          " ", "M", "a", "x", "i", "m", "u", "m", " ", "1", "0", "0", " ", "c", "l",
          "i", "p", "s", " ", "p", "e", "r", " ", "i", "m", "p", "o", "r", "t", ".",
          " ", "Y", "o", "u", " ", "p", "r", "o", "v", "i", "d", "e", "d", " ">>,
     rowCategory |->
        <<"C", "a", "t", "e", "g", "o", "r", "y", " ", "n", "o", "t", " ", "f", "o",
          "u", "n", "d", ":", " ">>,
     undefined |->
        <<"u", "n", "d", "e", "f", "i", "n", "e", "d">>,
     videoIdOf |->
        <<"C", "o", "u", "l", "d", " ", "n", "o", "t", " ", "e", "x", "t", "r", "a",
          "c", "t", " ", "v", "i", "d", "e", "o", " ", "I", "D", " ", "f", "r", "o",
          "m", " ", "U", "R", "L", ":", " ">>]

\* Whether a value counts as true (!!v).
Truthy(v) ==
    CASE v.t = "string" -> v.s # <<>>
      [] v.t = "number" -> v.n # 0 \/ v.s # <<>>
      [] v.t = "boolean" -> v.n = 1
      [] v.t \in {"undefined", "null", "NaN"} -> FALSE
      [] OTHER -> TRUE

\* a || b
OrElse(a, b) == IF Truthy(a) THEN a ELSE b

\* A document of the clips collection, with the fields the two routes set that
\* the properties read; duration is undefined in an imported document.
StoredClip(id, source, categoryId, startTimeSeconds, endTimeSeconds, duration, episode) ==
    [id |-> id, source |-> source, categoryId |-> categoryId,
     startTimeSeconds |-> startTimeSeconds, endTimeSeconds |-> endTimeSeconds,
     duration |-> duration, episode |-> episode]

\* The body of POST /manual and what the request meets: whether the token is the
\* admin's, whether the category document exists.
ManualRequest(authorized, videoId, title, categoryId, startTime, endTime, start, end, exists) ==
    [route |-> "manual", authorized |-> authorized, videoId |-> videoId, title |-> title,
     categoryId |-> categoryId, startTime |-> startTime, endTime |-> endTime,
     start |-> start, end |-> end, categoryExists |-> exists, clips |-> <<>>]

\* The response of a route and the documents it wrote: an error status with its
\* text, or success with the counts of the import.
WriteResponse(status, error, docs, imported, errors, total) ==
    [status |-> status, error |-> error, docs |-> docs, imported |-> imported,
     errors |-> errors, total |-> total]

WriteFailure(status, error) == WriteResponse(status, error, <<>>, 0, <<>>, 0)

ManualWrite_NoShortCheck(body, startSec, endSec, nextId) ==
    IF endSec <= startSec THEN WriteFailure(400, WriteErrors.endBeforeStart)
    ELSE IF endSec - startSec > 1800 THEN WriteFailure(400, WriteErrors.tooLong)
    ELSE IF ~body.categoryExists THEN WriteFailure(400, WriteErrors.categoryMissing)
    ELSE WriteResponse(200, <<>>,
             <<StoredClip(nextId, "manual", Trim(body.categoryId.s), startSec, endSec,
                          JsNum(endSec - startSec), NoText)>>, 1, <<>>, 1)

\* Lines 96-185: the checks of the times, then the category, then the write.
ManualWrite(body, startSec, endSec, nextId) ==
    IF endSec <= startSec THEN WriteFailure(400, WriteErrors.endBeforeStart)
    ELSE IF endSec - startSec > 1800 THEN WriteFailure(400, WriteErrors.tooLong)
    ELSE IF endSec - startSec < 5 THEN WriteFailure(400, WriteErrors.tooShort)
    ELSE IF ~body.categoryExists THEN WriteFailure(400, WriteErrors.categoryMissing)
    ELSE WriteResponse(200, <<>>,
             <<StoredClip(nextId, "manual", Trim(body.categoryId.s), startSec, endSec,
                          JsNum(endSec - startSec), NoText)>>, 1, <<>>, 1)

\* Lines 75-94: the two times are parsed, the start first.
ManualTimes(body, startTime, endTime, nextId) ==
    IF ~startTime.ok THEN WriteFailure(400, WriteErrors.startTime \o startTime.error)
    ELSE IF ~endTime.ok THEN WriteFailure(400, WriteErrors.endTime \o endTime.error)
    ELSE ManualWrite(body, startTime.value, endTime.value, nextId)

\* router.post('/manual'): the response and the document written, if any; nextId is
\* the id storage gives the new document.
PostManual(body, nextId) ==
    IF ~body.authorized THEN WriteFailure(401, WriteErrors.unauthorized)
    ELSE IF ~body.videoId.p \/ Trim(body.videoId.s) = <<>>
    THEN WriteFailure(400, WriteErrors.videoId)
    ELSE IF ~body.title.p \/ Trim(body.title.s) = <<>>
    THEN WriteFailure(400, WriteErrors.title)
    ELSE IF ~body.categoryId.p \/ Trim(body.categoryId.s) = <<>>
    THEN WriteFailure(400, WriteErrors.categoryId)
    ELSE IF Len(Trim(body.title.s)) > 200 THEN WriteFailure(400, WriteErrors.titleLong)
    ELSE ManualTimes(body, parseTimeToSecondsJs(OrElse(body.startTime, body.start)),
                     parseTimeToSecondsJs(OrElse(body.endTime, body.end)), nextId)

\* A row of the body of POST /import: whether extractVideoId accepts its link, its
\* times, its category name and its episode.
ImportRow(linkOk, startTime, endTime, category, episode) ==
    [linkOk |-> linkOk, startTime |-> startTime, endTime |-> endTime,
     category |-> category, episode |-> episode]

\* The body of POST /import: clips is absent or a list of rows.
ImportRequest(authorized, rows) ==
    [route |-> "import", authorized |-> authorized, videoId |-> NoText, title |-> NoText,
     categoryId |-> NoText, startTime |-> JsUndef, endTime |-> JsUndef,
     start |-> JsUndef, end |-> JsUndef, categoryExists |-> FALSE, clips |-> rows]

\* toLowerCase of a text.
ToLowerCase(s) ==
    [i \in 1..Len(s) |->
        IF CodeOf(s[i]) >= 65 /\ CodeOf(s[i]) <= 90 THEN CharOf(CodeOf(s[i]) + 32) ELSE s[i]]

\* s.replace(/[^a-z0-9]+/g, '-') of a lower-case text.
RECURSIVE Slug(_)
Slug(s) ==
    LET Plain(c) == IsDigit(c) \/ (CodeOf(c) >= 97 /\ CodeOf(c) <= 122)
    IN IF s = <<>> THEN <<>>
       ELSE IF Plain(Head(s)) THEN <<Head(s)>> \o Slug(Tail(s))
       ELSE IF Len(s) > 1 /\ ~Plain(s[2]) THEN Slug(Tail(s))
       ELSE <<"-">> \o Slug(Tail(s))

\* The names of the documents of the categories collection, with their ids.
Categories == {[id |-> <<"c", "1">>, name |-> <<"H", "e", "a", "l", "i", "n", "g">>]}

\* Lines 300-313: the category of a row: the one of that name, or one with the id
\* made from the name; none when the row names no category.
RowCategory(row) ==
    IF row.category.p /\ \E c \in Categories : ToLowerCase(c.name) = ToLowerCase(row.category.s)
    THEN SomeText((CHOOSE c \in Categories :
                      ToLowerCase(c.name) = ToLowerCase(row.category.s)).id)
    ELSE IF row.category.p /\ row.category.s # <<>>
    THEN SomeText(Slug(ToLowerCase(row.category.s)))
    ELSE NoText

\* savedClips and errors of the save loop.
Saved(docs, errors) == [docs |-> docs, errors |-> errors]

SaveRow_DropsBadEnd(acc, row, startTime, endTime, nextId) ==
    IF ~row.linkOk
    THEN Saved(acc.docs, Append(acc.errors, [episode |-> row.episode,
                                             error |-> WriteErrors.videoIdOf]))
    ELSE IF ~startTime.ok
    THEN Saved(acc.docs, Append(acc.errors, [episode |-> row.episode,
                                             error |-> startTime.error]))
    ELSE IF ~endTime.ok
    THEN acc
    ELSE IF ~RowCategory(row).p
    THEN Saved(acc.docs,
               Append(acc.errors,
                      [episode |-> row.episode,
                       error |-> WriteErrors.rowCategory
                                 \o (IF row.category.p THEN row.category.s
                                     ELSE WriteErrors.undefined)]))
    ELSE Saved(Append(acc.docs,
                      StoredClip(nextId + Len(acc.docs), "csv-import", RowCategory(row).s,
                                 startTime.value, endTime.value, JsUndef, row.episode)),
               acc.errors)

\* Lines 295-384: the body of the save loop for one row, with its parsed times.
SaveRow(acc, row, startTime, endTime, nextId) ==
    IF ~row.linkOk
    THEN Saved(acc.docs, Append(acc.errors, [episode |-> row.episode,
                                             error |-> WriteErrors.videoIdOf]))
    ELSE IF ~startTime.ok
    THEN Saved(acc.docs, Append(acc.errors, [episode |-> row.episode,
                                             error |-> startTime.error]))
    ELSE IF ~endTime.ok
    THEN Saved(acc.docs, Append(acc.errors, [episode |-> row.episode,
                                             error |-> endTime.error]))
    ELSE IF ~RowCategory(row).p
    THEN Saved(acc.docs,
               Append(acc.errors,
                      [episode |-> row.episode,
                       error |-> WriteErrors.rowCategory
                                 \o (IF row.category.p THEN row.category.s
                                     ELSE WriteErrors.undefined)]))
    ELSE Saved(Append(acc.docs,
                      StoredClip(nextId + Len(acc.docs), "csv-import", RowCategory(row).s,
                                 startTime.value, endTime.value, JsUndef, row.episode)),
               acc.errors)

\* The save loop from row i on.
RECURSIVE SaveLoop(_, _, _, _)
SaveLoop(rows, i, acc, nextId) ==
    IF i > Len(rows) THEN acc
    ELSE SaveLoop(rows, i + 1,
                  SaveRow(acc, rows[i], parseTimeToSecondsJs(rows[i].startTime),
                          parseTimeToSecondsJs(rows[i].endTime), nextId),
                  nextId)

\* Lines 387-406: the batch is committed and the counts are reported.
ImportResponse(rows, acc) ==
    WriteResponse(200, <<>>, acc.docs, Len(acc.docs), acc.errors, Len(rows))

\* router.post('/import'): the response and the documents written.
PostImport(body, nextId) ==
    IF ~body.authorized THEN WriteFailure(401, WriteErrors.unauthorized)
    ELSE IF ~body.clips.p \/ Len(body.clips.rows) = 0
    THEN WriteFailure(400, WriteErrors.noClips)
    ELSE IF Len(body.clips.rows) > 100
    THEN WriteFailure(400, WriteErrors.tooMany \o NatToStr(Len(body.clips.rows)))
    ELSE ImportResponse(body.clips.rows,
                        SaveLoop(body.clips.rows, 1, Saved(<<>>, <<>>), nextId))

\* No admin request yet.
NoWrite == ImportRequest(FALSE, [p |-> FALSE, rows |-> <<>>])
NoWriteResponse == WriteFailure(0, <<>>)

-----------------------------------------------------------------------------
(* lib/hooks/useClipsPagination: the hook of a component, its requests to    *)
(* GET /api/clips and their answers.  A call runs up to its await in one     *)
(* step; the answer of a request arrives in a later step.  loadMore reads    *)
(* hasMore as last set.  The query of a request is its cursor; the other     *)
(* parameters are fixed by the options.                                       *)

\* The state (clips, loading, error, hasMore, queryTimeMs) and the refs
\* (nextCursor, isLoadingRef) of the hook; queryTimeMs is -1 for null.
HookState(mounted, items, loading, error, hasMore, queryTimeMs, cursor, isLoading) ==
    [mounted |-> mounted, clips |-> items, loading |-> loading, error |-> error,
     hasMore |-> hasMore, queryTimeMs |-> queryTimeMs, nextCursor |-> cursor,
     isLoadingRef |-> isLoading]

\* Lines 56-64: the hook before its component is mounted, for initialLoad.
InitialHook(initialLoad) ==
    HookState(FALSE, <<>>, initialLoad, NoText, TRUE, -1, NoText, FALSE)

Unmounted == InitialHook(TRUE)

\* A request sent by fetchClips: the n-th of the hook, with its arguments.
ListingRequest(n, cursor, replace) == [n |-> n, cursor |-> cursor, replace |-> replace]

\* The hook and the requests in flight.
Hooked(h, requests) == [hook |-> h, inFlight |-> requests]

\* Lines 82-90: fetchClips up to the await of fetch.
FetchStart(h, requests, n, cursor, replace) ==
    IF h.isLoadingRef THEN Hooked(h, requests)
    ELSE Hooked([h EXCEPT !.isLoadingRef = TRUE, !.loading = TRUE, !.error = NoText],
                requests \cup {ListingRequest(n + 1, cursor, replace)})

\* An answer to a request: the page of a 200, or the message the catch shows.
PageAnswer(items, cursor, queryTimeMs) ==
    [ok |-> TRUE, items |-> items, nextCursor |-> cursor, queryTimeMs |-> queryTimeMs,
     message |-> <<>>]
FailedAnswer(message) ==
    [ok |-> FALSE, items |-> <<>>, nextCursor |-> NoText, queryTimeMs |-> 0,
     message |-> message]

\* Lines 108-113: the items are appended, without those whose id is there.
AppendNew(prev, items) ==
    LET New(id) == \A i \in 1..Len(prev) : prev[i] # id
    IN prev \o SelectSeq(items, New)

\* Lines 92-123: fetchClips after the await: the page is taken or the error is
\* shown, and the hook stops loading.
FetchEnd(h, request, answer) ==
    LET taken == IF answer.ok
                 THEN [h EXCEPT !.queryTimeMs = answer.queryTimeMs,
                                !.hasMore = answer.nextCursor.p /\ answer.nextCursor.s # <<>>,
                                !.nextCursor = IF answer.nextCursor.p /\ answer.nextCursor.s # <<>>
                                               THEN answer.nextCursor ELSE NoText,
                                !.clips = IF request.replace THEN answer.items
                                          ELSE AppendNew(h.clips, answer.items)]
                 ELSE [h EXCEPT !.error = SomeText(answer.message)]
    IN [taken EXCEPT !.loading = FALSE, !.isLoadingRef = FALSE]

-----------------------------------------------------------------------------
(* The state before anything has happened *)

RawQuery(categoryId, month, year, episode, sort, limit, cursor) ==
    [categoryId |-> categoryId, month |-> month, year |-> year, episode |-> episode,
     sort |-> sort, limit |-> limit, cursor |-> cursor]

Opt(texts) == {NoText} \cup {SomeText(t) : t \in texts}

NoQuery == RawQuery(NoText, NoText, NoText, NoText, NoText, NoText, NoText)
NoNormalized == QueryError(<<>>)

\* Date.now() and the message of the error storage threw, if it threw.
Env(now, fault) == [now |-> now, fault |-> fault]
NoEnv == Env(0, NoText)

\* No response yet; no earlier page.
NoResponse == Response(0, <<>>, NoText, NoEcho)
NoPage == [followed |-> FALSE, res |-> NoResponse, wroteBefore |-> FALSE]

\* The years the server's clock shows.
ClockYears == {2025, 2026}

Pending == [t |-> "pending", n |-> 0, s |-> <<>>, f |-> <<>>]

\* No request has been made, or the last one has been put away.
Idle == normalized = NoNormalized

IdleInit ==
    /\ clips = <<>>
    /\ clockYear = CHOOSE y \in ClockYears : \A z \in ClockYears : y <= z
    /\ req = NoQuery
    /\ env = NoEnv
    /\ normalized = NoNormalized
    /\ res = NoResponse
    /\ page1 = NoPage
    /\ wrote = FALSE
    /\ cursorObj = Pending
    /\ cursorText = NoText
    /\ cursorOut = Pending
    /\ monthArg = NoText
    /\ monthOut = MonthNull
    /\ timeArg = Pending
    /\ timeOut = NoSeconds
    /\ timeJsOut = NoSeconds
    /\ timingClip = NoClipTime
    /\ timingOut = NoValidation
    /\ batchIn = <<>>
    /\ batchOut = NoBatch
    /\ stored = <<>>
    /\ writeReq = NoWrite
    /\ writeRes = NoWriteResponse
    /\ hook = Unmounted
    /\ inFlight = {}
    /\ fetches = 0

-----------------------------------------------------------------------------
(* The codec on its own: an object is encoded and the text decoded, or a    *)
(* text arrives from a client and is decoded.                                *)

\* Bounds of the codec's inputs.
MaxStrLen == 2
MaxRawLen == 3

Texts(alphabet, maxLen) == UNION {[1..n -> alphabet] : n \in 0..maxLen}

\* Values of type number: integers, a fraction, and the three non-finite ones.
FiniteNums == {JsNum(-1), JsNum(0), JsNum(7), JsNum(1234567), JsFrac(1, <<".", "5">>)}
NonFiniteNums == {JsNaN, JsInf(1), JsInf(-1)}
Nums == FiniteNums \cup NonFiniteNums

\* Values of type string: every text of up to MaxStrLen characters over an
\* alphabet with the two characters JSON escapes, and two dates.
Strs ==
    {JsStr(t) : t \in Texts({"2", "-", "a", "\"", "\\"}, MaxStrLen)}
    \cup {JsStr(<<"2", "0", "2", "5", "-", "0", "2", "-", "2", "8">>),
          JsStr(<<"2", "0", "2", "4", "-", "1", "2", "-", "3", "1">>)}

RecentCursor(d, ms) == JsObj(<<Fld(KServiceDate, d), Fld(KCreatedAtMs, ms)>>)
MostSavedCursor(n, ms) == JsObj(<<Fld(KSavedCount, n), Fld(KCreatedAtMs, ms)>>)

RecentCursors == {RecentCursor(d, ms) : d \in Strs, ms \in Nums}
MostSavedCursors == {MostSavedCursor(n, ms) : n \in Nums, ms \in Nums}

KExtra == <<"x">>

\* Objects and other values that are neither of the two cursor shapes.
OtherValues ==
    {JsObj(<<>>), JsArr(<<>>), JsArr(<<Fld(<<>>, JsNum(1))>>), JsNull, JsBool(TRUE),
     JsNum(5), JsStr(<<"a">>), JsUndef,
     JsObj(<<Fld(KCreatedAtMs, JsNum(1))>>),
     JsObj(<<Fld(KServiceDate, JsStr(<<"a">>))>>),
     JsObj(<<Fld(KSavedCount, JsNum(3))>>),
     JsObj(<<Fld(KServiceDate, JsNum(5)), Fld(KCreatedAtMs, JsNum(1))>>),
     JsObj(<<Fld(KServiceDate, JsStr(<<"a">>)), Fld(KCreatedAtMs, JsStr(<<"1">>))>>),
     JsObj(<<Fld(KSavedCount, JsStr(<<"3">>)), Fld(KCreatedAtMs, JsNum(1))>>),
     JsObj(<<Fld(KSavedCount, JsNum(3)), Fld(KCreatedAtMs, JsNull)>>),
     JsObj(<<Fld(KSavedCount, JsBool(TRUE)), Fld(KCreatedAtMs, JsNum(1))>>),
     JsObj(<<Fld(KServiceDate, JsStr(<<"a">>)), Fld(KCreatedAtMs, JsNum(1)),
             Fld(KExtra, JsNum(1))>>),
     JsObj(<<Fld(KExtra, JsObj(<<>>)), Fld(KSavedCount, JsNum(3)),
             Fld(KCreatedAtMs, JsNum(1))>>),
     JsObj(<<Fld(KServiceDate, JsStr(<<"a">>)), Fld(KSavedCount, JsNum(3)),
             Fld(KCreatedAtMs, JsNum(1))>>),
     JsObj(<<Fld(KServiceDate, JsStr(<<"a">>)), Fld(KSavedCount, JsStr(<<"3">>)),
             Fld(KCreatedAtMs, JsNum(1))>>)}

\* Texts that are not the base64url of any JSON text: short texts over a few
\* characters, legal and not, and the base64url of broken JSON.
BrokenJson ==
    {<<"{">>, <<"n", "u", "l">>, <<"[", "1", ",">>, <<"{", "}", "x">>,
     <<"{", "\"", "a", "\"", ":", "}">>, <<"\"", "a">>, <<"-">>, <<"0", "1">>,
     <<"{", "\"", "a", "\"", ":", "1", ",", "}">>}

RawTexts == Texts({"e", "A", "=", "!"}, MaxRawLen) \cup {ToBase64Url(j) : j \in BrokenJson}

\* The server builds a cursor object (process-video.js 349-357).
BuildCursor(obj) ==
    /\ cursorObj = Pending /\ cursorText = NoText
    /\ cursorObj' = obj
    /\ UNCHANGED <<clips, clockYear, requestVars, cursorText, cursorOut, monthVars, timeVars, timingVars, batchVars, writeVars, hookVars>>

\* encodeCursor on the object built; a throw leaves no text.
EncodeCursor ==
    /\ cursorObj # Pending /\ cursorText = NoText /\ cursorOut = Pending
    /\ LET e == encodeCursor(cursorObj) IN
        /\ e.ok
        /\ cursorText' = SomeText(e.s)
    /\ UNCHANGED <<clips, clockYear, requestVars, cursorObj, cursorOut, monthVars, timeVars, timingVars, batchVars, writeVars, hookVars>>

\* A client sends a cursor text of its own making.
ReceiveCursor(text) ==
    /\ cursorObj = Pending /\ cursorText = NoText
    /\ cursorText' = SomeText(text)
    /\ UNCHANGED <<clips, clockYear, requestVars, cursorObj, cursorOut, monthVars, timeVars, timingVars, batchVars, writeVars, hookVars>>

\* decodeCursor on the text on the wire.
DecodeCursor ==
    /\ cursorText.p /\ cursorOut = Pending
    /\ cursorOut' = decodeCursor(cursorText)
    /\ UNCHANGED <<clips, clockYear, requestVars, cursorObj, cursorText, monthVars, timeVars, timingVars, batchVars, writeVars, hookVars>>

CursorNext ==
    \/ \E obj \in RecentCursors \cup MostSavedCursors \cup OtherValues : BuildCursor(obj)
    \/ EncodeCursor
    \/ \E text \in RawTexts : ReceiveCursor(text)
    \/ DecodeCursor

SpecCursor == IdleInit /\ [][CursorNext]_vars

-----------------------------------------------------------------------------
(* parseMonthRange on its own *)

\* Bounds of the month texts tried: years and months this far outside the ranges.
YearMargin == 2
MonthMargin == 2

YearMonth(y, m) == Pad(y, 4) \o <<"-">> \o Pad(m, 2)

\* A text with its character at position i replaced by c.
WithChar(s, i, c) == [k \in 1..Len(s) |-> IF k = i THEN c ELSE s[k]]

\* Every YYYY-MM of the years and months around the ranges; those of 2024 and
\* 2025 with one character replaced; and texts that are too long or too short.
MonthTexts ==
    {YearMonth(y, m) : y \in (MinYear - YearMargin)..(MaxYear + YearMargin),
                       m \in 0..(12 + MonthMargin)}
    \cup {WithChar(YearMonth(y, 2), i, c) :
            y \in {2024, 2025}, i \in 1..7, c \in {"a", "-", " ", "0", "/"}}
    \cup {<<>>, <<"0", "2">>, YearMonth(2025, 2) \o <<" ">>, <<" ">> \o YearMonth(2025, 2),
          YearMonth(2025, 2) \o <<"-", "0", "1">>, <<"2", "0", "2", "5", "-", "2">>,
          NatToStr(2026) \o <<"-">> \o YearMonth(2025, 2), YearMonth(20250, 2)}

\* parseMonthRange is called on a text.
ParseMonth(text) ==
    /\ ~monthArg.p
    /\ monthArg' = SomeText(text)
    /\ monthOut' = parseMonthRange(text)
    /\ UNCHANGED <<clips, clockYear, requestVars, codecVars, timeVars, timingVars, batchVars, writeVars, hookVars>>

MonthNext == \E text \in MonthTexts : ParseMonth(text)

SpecMonth == IdleInit /\ [][MonthNext]_vars

-----------------------------------------------------------------------------
(* parseTimeToSeconds on its own: it is called on a string or a number.     *)

MinutesSeconds(m, sec) == NatToStr(m) \o <<":">> \o Pad(sec, 2)
HoursMinutesSeconds(h, m, sec) == NatToStr(h) \o <<":">> \o Pad(m, 2) \o <<":">> \o Pad(sec, 2)

\* Texts of the form mm:ss and hh:mm:ss, around the limits of each part.
TwoPartMinutes == {0, 12, 59, 60, 1439, 1440, 1441}
TwoPartSeconds == {0, 34, 59, 60}
TwoPartTexts == {MinutesSeconds(m, sec) : m \in TwoPartMinutes, sec \in TwoPartSeconds}
ThreePartHours == {0, 1, 23, 24, 25}
ThreePartMinutes == {0, 2, 59, 60}
ThreePartSeconds == {0, 3, 59, 60}
ThreePartTexts ==
    {HoursMinutesSeconds(h, m, sec) :
        h \in ThreePartHours, m \in ThreePartMinutes, sec \in ThreePartSeconds}

\* Texts of digits only, and the numbers they spell.
SecondCounts == {0, 90, 754, 86400, 86401, 90000}
DigitTexts == {NatToStr(n) : n \in SecondCounts} \cup {<<"0", "0", "7">>}

\* Other texts: empty, blank, padded with spaces, without colon, with too many or
\* empty parts, with signs, letters or decimals inside a part.
OddTexts ==
    {<<>>,
     <<" ">>,
     <<" ", "1", "2", ":", "3", "4", " ">>,
     <<"a", "b", "c">>,
     <<"-", "5">>,
     <<"1", ":", "2">>,
     <<"1", ":", "2", ":", "3", ":", "4">>,
     <<":", "3", "0">>,
     <<"1", "2", ":">>,
     <<"1", ":", ":", "2">>,
     <<"1", ":", ":", "3">>,
     <<"-", "5", ":", "3", "0">>,
     <<"1", "a", ":", "0", "2">>,
     <<"1", "2", ":", "3", "x">>,
     <<"-", "1", ":", "0", "2">>,
     <<"+", "1", ":", "0", "2">>,
     <<"1", ":", " ", "2">>,
     <<"1", ".", "5", ":", "0", "2">>,
     <<"a", ":", "0", "2">>,
     <<"1", ":", "0", "2", ":", "0", "3", ":">>}

TimeInputs ==
    {JsStr(t) : t \in TwoPartTexts \cup ThreePartTexts \cup DigitTexts \cup OddTexts}
        \cup {JsNum(n) : n \in SecondCounts \cup {-1}}
        \cup {JsFrac(1, <<".", "5">>), JsNaN, JsInf(1), JsUndef, JsNull}

\* parseTimeToSeconds of parse.ts and of parse.js are called on an input.
ParseTime(input) ==
    /\ timeArg = Pending
    /\ timeArg' = input
    /\ timeOut' = parseTimeToSeconds(input)
    /\ timeJsOut' = parseTimeToSecondsJs(input)
    /\ UNCHANGED <<clips, clockYear, requestVars, codecVars, monthVars, timingVars, batchVars, writeVars, hookVars>>

TimeNext == \E input \in TimeInputs : ParseTime(input)

SpecTime == IdleInit /\ [][TimeNext]_vars

-----------------------------------------------------------------------------
(* validateClipTiming on its own: it is called on a clip's times.           *)

\* Start times around 2 hours, 4 hours and 90 hours, with remainders around a minute.
TimingStarts ==
    {0, 100, 3661, 7200, 7201, 7259, 7260, 10801, 14400, 14401, 14459, 18000,
     320459, 324000}

\* Durations around 0, 30 seconds and 30 minutes.
TimingDurations == {-10, 0, 1, 29, 30, 39, 120, 1800, 1801, 3599}

TimingClips ==
    {ClipTimeData(p[1], p[1] + p[2]) :
        p \in {q \in TimingStarts \X TimingDurations : q[1] + q[2] >= 0}}

\* validateClipTiming is called on a clip.
ValidateTiming(clip) ==
    /\ timingOut = NoValidation
    /\ timingClip' = clip
    /\ timingOut' = validateClipTiming(clip)
    /\ UNCHANGED <<clips, clockYear, requestVars, codecVars, monthVars, timeVars, batchVars, writeVars, hookVars>>

TimingNext == \E clip \in TimingClips : ValidateTiming(clip)

SpecTiming == IdleInit /\ [][TimingNext]_vars

-----------------------------------------------------------------------------
(* batchValidateClips on its own: it is called on a list of clips.          *)

\* The longest batch.
MaxBatch == 3

\* Times of a valid clip, of a short one (low), of one of zero duration (medium),
\* of one ending before its start (high), of one with the conversion pattern
\* (medium).
BatchTimes ==
    {ClipTimeData(0, 120), ClipTimeData(0, 10), ClipTimeData(100, 100),
     ClipTimeData(100, 90), ClipTimeData(7200, 7201)}

\* The batches: clips with those times, their ids in the order of the batch.
Batches ==
    UNION {{[i \in 1..n |-> BatchClip(i, t[i].startTimeSeconds, t[i].endTimeSeconds)] :
               t \in [1..n -> BatchTimes]} : n \in 0..MaxBatch}

\* batchValidateClips is called on a batch.
ValidateBatch(batch) ==
    /\ batchOut = NoBatch
    /\ batchIn' = batch
    /\ batchOut' = batchValidateClips(batch)
    /\ UNCHANGED <<clips, clockYear, requestVars, codecVars, monthVars, timeVars, timingVars, writeVars, hookVars>>

BatchNext == \E batch \in Batches : ValidateBatch(batch)

SpecBatch == IdleInit /\ [][BatchNext]_vars

-----------------------------------------------------------------------------
(* The two admin routes that write clips: requests arrive one after another  *)
(* and each is answered in full.                                              *)

\* Requests are made while fewer documents than this are stored.
MaxStored == 2

\* Start and end times of the manual requests: around the limits of 5 and 1800
\* seconds, an end before the start, texts that do not parse, the number 0.
ManualStarts == {JsStr(<<"1", ":", "0", "0">>), JsStr(<<"0", ":", "5", "9">>), JsStr(<<"a", "b", "c">>), JsNum(0)}
ManualEnds ==
    {JsStr(<<"1", ":", "0", "4">>), JsStr(<<"1", ":", "0", "5">>), JsStr(<<"3", "1", ":", "0", "0">>), JsStr(<<"3", "1", ":", "0", "1">>),
     JsStr(<<"0", ":", "3", "0">>), JsStr(<<"x">>)}

\* A manual request of the admin with every field in order, and the ways a
\* request can lack something.
GoodManual(startTime, endTime, start, end) ==
    ManualRequest(TRUE, SomeText(<<"v", "1">>), SomeText(<<"t">>), SomeText(<<"c", "1">>),
                  startTime, endTime, start, end, TRUE)

LackingManual(startTime, endTime) ==
    LET g == GoodManual(startTime, endTime, JsUndef, JsUndef)
    IN {[g EXCEPT !.authorized = FALSE], [g EXCEPT !.videoId = NoText],
        [g EXCEPT !.title = SomeText(<<" ">>)], [g EXCEPT !.categoryId = NoText],
        [g EXCEPT !.title = SomeText([i \in 1..201 |-> "a"])],
        [g EXCEPT !.categoryExists = FALSE]}

\* The manual requests: times in startTime and endTime, or in start and end.
ManualRequests ==
    {GoodManual(s, e, JsUndef, JsUndef) : s \in ManualStarts, e \in ManualEnds}
        \cup {GoodManual(JsUndef, JsUndef, JsStr(<<"1", ":", "0", "0">>), JsStr(<<"1", ":", "0", "5">>)),
              GoodManual(JsNum(0), JsUndef, JsUndef, JsStr(<<"1", ":", "0", "5">>)),
              GoodManual(JsUndef, JsUndef, JsUndef, JsUndef)}
        \cup LackingManual(JsStr(<<"1", ":", "0", "0">>), JsStr(<<"1", ":", "0", "5">>))
        \cup LackingManual(JsStr(<<"1", ":", "0", "0">>), JsStr(<<"0", ":", "3", "0">>))

\* Rows of an import: in order and of a known category, with a start or an end
\* that does not parse, ending before the start, with a link that names no
\* video, without category.
ImportRows ==
    LET Row(startTime, endTime) ==
            ImportRow(TRUE, JsStr(startTime), JsStr(endTime), SomeText(<<"h", "e", "a", "l", "i", "n", "g">>), NoText)
        ok == Row(<<"0", ":", "3", "0">>, <<"1", ":", "0", "0">>)
    IN {ok,
        Row(<<"a", "b", "c">>, <<"1", ":", "0", "0">>),
        Row(<<"0", ":", "3", "0">>, <<"1", "2", ":", "6", "0">>),
        Row(<<"1", ":", "0", "0">>, <<"0", ":", "3", "0">>),
        [ok EXCEPT !.linkOk = FALSE],
        [ok EXCEPT !.category = NoText]}

\* The longest import tried, apart from the one over the limit of 100.
MaxImport == 2

\* The import requests: the rows numbered by their episode.
ImportRequests ==
    UNION {{ImportRequest(TRUE,
                [p |-> TRUE,
                 rows |-> [i \in 1..n |-> [r[i] EXCEPT !.episode = SomeText(NatToStr(i))]]]) :
               r \in [1..n -> ImportRows]} : n \in 1..MaxImport}
        \cup {ImportRequest(TRUE, [p |-> FALSE, rows |-> <<>>]),
              ImportRequest(TRUE, [p |-> TRUE, rows |-> <<>>]),
              ImportRequest(TRUE, [p |-> TRUE,
                                   rows |-> [i \in 1..101 |-> CHOOSE r \in ImportRows : r.linkOk]]),
              ImportRequest(FALSE, [p |-> TRUE,
                                    rows |-> <<CHOOSE r \in ImportRows : r.linkOk>>])}

\* POST /manual is answered.
CreateManual(body) ==
    /\ Len(stored) < MaxStored
    /\ writeReq' = body
    /\ writeRes' = PostManual(body, Len(stored) + 1)
    /\ stored' = stored \o writeRes'.docs
    /\ UNCHANGED <<clips, clockYear, requestVars, codecVars, monthVars, timeVars, timingVars,
                   batchVars, hookVars>>

\* POST /import is answered.
ImportBatch(body) ==
    /\ Len(stored) < MaxStored
    /\ writeReq' = body
    /\ writeRes' = PostImport(body, Len(stored) + 1)
    /\ stored' = stored \o writeRes'.docs
    /\ UNCHANGED <<clips, clockYear, requestVars, codecVars, monthVars, timeVars, timingVars,
                   batchVars, hookVars>>

WriteNext ==
    \/ \E body \in ManualRequests : CreateManual(body)
    \/ \E body \in ImportRequests : ImportBatch(body)

SpecWrite == IdleInit /\ [][WriteNext]_vars

-----------------------------------------------------------------------------
(* The hook in a component: the component calls loadMore, refresh and reset, *)
(* and the answers of the requests arrive, in any order.                      *)

\* The hook sends at most this many requests.
MaxFetches == 3

\* The answers of the server: pages with and without a next cursor, an error.
HookCursors == {<<"k", "1">>, <<"k", "2">>}
Answers ==
    {PageAnswer(items, cursor, 5) :
        items \in {<<>>, <<1, 2>>, <<2, 3>>},
        cursor \in {NoText, SomeText(<<>>)} \cup {SomeText(c) : c \in HookCursors}}
      \cup {FailedAnswer(<<"H", "T", "T", "P", " ", "5", "0", "0">>)}

\* Lines 149-161: the component is mounted: with initialLoad the first page is
\* fetched and refresh is called.
Mount(initialLoad) ==
    /\ ~hook.mounted
    /\ LET first == IF initialLoad
                    THEN FetchStart([InitialHook(initialLoad) EXCEPT !.mounted = TRUE], {}, 0,
                                    NoText, TRUE)
                    ELSE Hooked([InitialHook(initialLoad) EXCEPT !.mounted = TRUE], {})
           second == IF initialLoad
                     THEN FetchStart([first.hook EXCEPT !.nextCursor = NoText, !.hasMore = TRUE],
                                     first.inFlight, Cardinality(first.inFlight), NoText, TRUE)
                     ELSE first
       IN /\ hook' = second.hook
          /\ inFlight' = second.inFlight
          /\ fetches' = Cardinality(second.inFlight)
    /\ UNCHANGED <<clips, clockYear, requestVars, codecVars, monthVars, timeVars, timingVars,
                   batchVars, writeVars>>

\* loadMore (lines 127-130).
HookLoadMore ==
    /\ hook.mounted /\ fetches < MaxFetches
    /\ LET next == IF ~hook.hasMore \/ hook.isLoadingRef THEN Hooked(hook, inFlight)
                   ELSE FetchStart(hook, inFlight, fetches, hook.nextCursor, FALSE)
       IN /\ hook' = next.hook
          /\ inFlight' = next.inFlight
          /\ fetches' = IF next.inFlight = inFlight THEN fetches ELSE fetches + 1
    /\ UNCHANGED <<clips, clockYear, requestVars, codecVars, monthVars, timeVars, timingVars,
                   batchVars, writeVars>>

\* refresh (lines 133-137).
HookRefresh ==
    /\ hook.mounted /\ fetches < MaxFetches
    /\ LET next == FetchStart([hook EXCEPT !.nextCursor = NoText, !.hasMore = TRUE],
                              inFlight, fetches, NoText, TRUE)
       IN /\ hook' = next.hook
          /\ inFlight' = next.inFlight
          /\ fetches' = IF next.inFlight = inFlight THEN fetches ELSE fetches + 1
    /\ UNCHANGED <<clips, clockYear, requestVars, codecVars, monthVars, timeVars, timingVars,
                   batchVars, writeVars>>

\* reset (lines 140-147).
HookReset ==
    /\ hook.mounted
    /\ hook' = [hook EXCEPT !.clips = <<>>, !.error = NoText, !.hasMore = TRUE,
                            !.queryTimeMs = -1, !.nextCursor = NoText,
                            !.isLoadingRef = FALSE]
    /\ UNCHANGED <<inFlight, fetches>>
    /\ UNCHANGED <<clips, clockYear, requestVars, codecVars, monthVars, timeVars, timingVars,
                   batchVars, writeVars>>

\* The answer of a request in flight arrives.
Arrive(request, answer) ==
    /\ request \in inFlight
    /\ hook' = FetchEnd(hook, request, answer)
    /\ inFlight' = inFlight \ {request}
    /\ UNCHANGED fetches
    /\ UNCHANGED <<clips, clockYear, requestVars, codecVars, monthVars, timeVars, timingVars,
                   batchVars, writeVars>>

HookNext ==
    \/ \E initialLoad \in BOOLEAN : Mount(initialLoad)
    \/ HookLoadMore
    \/ HookRefresh
    \/ HookReset
    \/ \E request \in inFlight, answer \in Answers : Arrive(request, answer)

SpecHook == IdleInit /\ [][HookNext]_vars

-----------------------------------------------------------------------------
(* validateQueryParams on its own: a request arrives and is normalized.     *)

\* Bound of the limit texts tried.
MaxLimitLen == 3

LimitTexts == Texts({"0", "1", "5", "9", "-", "a", " "}, MaxLimitLen)

SortTexts == {SRecent, SMostSaved, <<"x">>, <<" ">> \o SMostSaved \o <<" ">>}

\* Cursor texts of each kind: the two shapes, an object with neither field pair,
\* an object with a field too many, fields of the wrong type, a value that is no
\* object, broken JSON, and characters that are not base64url.
SomeRecentCursor == RecentCursor(JsStr(YearMonth(2026, 2) \o <<"-", "1", "0">>), JsNum(100))
SomeMostSavedCursor == MostSavedCursor(JsNum(3), JsNum(100))

WellFormedCursorTexts ==
    {encodeCursor(c).s : c \in {SomeRecentCursor, SomeMostSavedCursor}}

MalformedCursorTexts ==
    {encodeCursor(c).s : c \in
        {JsObj(<<Fld(KCreatedAtMs, JsNum(1))>>),
         JsObj(<<Fld(KServiceDate, JsNum(5)), Fld(KCreatedAtMs, JsNum(1))>>),
         JsObj(<<Fld(KSavedCount, JsStr(<<"3">>)), Fld(KCreatedAtMs, JsNum(1))>>),
         JsObj(<<Fld(KSavedCount, JsNum(3)), Fld(KCreatedAtMs, JsNaN)>>),
         JsNum(5), JsNull, JsArr(<<>>), JsStr(<<"a">>)}}
    \cup {ToBase64Url(j) : j \in {<<"{">>, <<"{", "\"", "a", "\"", ":", "}">>}}
    \cup {<<"!">>, <<"=", "=">>, <<"e", "y", "J">>, <<" ">>}

ExtraFieldCursorTexts ==
    {encodeCursor(c).s : c \in
        {JsObj(<<Fld(KServiceDate, JsStr(<<"a">>)), Fld(KCreatedAtMs, JsNum(1)),
                 Fld(KExtra, JsNum(1))>>)}}

CursorTexts == WellFormedCursorTexts \cup MalformedCursorTexts \cup ExtraFieldCursorTexts

\* A text of n characters c.
Repeat(c, n) == [i \in 1..n |-> c]

CategoryTexts ==
    {<<"c", "1">>, <<" ", "c", "1", " ">>, <<"c", "<", "1">>, <<"c", "'">>,
     Repeat("c", MaxCategoryIdLen), Repeat("c", MaxCategoryIdLen + 1)}

MonthParamTexts ==
    {<<"0", "2">>, <<"1", "3">>, <<"2">>, YearMonth(2025, 2), YearMonth(2024, 12),
     YearMonth(2025, 13)}

YearParamTexts == {NatToStr(2025), NatToStr(1999), <<"2", "5">>}

EpisodeTexts == {<<"7">>, <<"0", "7">>, <<"7", "a">>, <<"0">>, <<"a">>, NatToStr(MaxEpisode)}

\* Requests that vary the limit with the sort, the cursor with the sort, and the
\* month with the year, the category and the episode.
QueryRequests ==
    {RawQuery(NoText, NoText, NoText, NoText, s, l, NoText) :
        s \in Opt({SMostSaved}), l \in Opt(LimitTexts)}
    \cup {RawQuery(NoText, NoText, NoText, NoText, s, NoText, c) :
        s \in Opt(SortTexts), c \in Opt(CursorTexts)}
    \cup {RawQuery(c, m, y, e, NoText, NoText, NoText) :
        c \in Opt(CategoryTexts), m \in Opt(MonthParamTexts), y \in Opt(YearParamTexts),
        e \in Opt(EpisodeTexts)}

\* The year turns.
NewYear ==
    /\ Idle
    /\ clockYear + 1 \in ClockYears
    /\ clockYear' = clockYear + 1
    /\ UNCHANGED <<clips, requestVars, codecVars, monthVars, timeVars, timingVars, batchVars, writeVars, hookVars>>

\* A request arrives and validateQueryParams runs on its query.
Validate(query) ==
    /\ Idle
    /\ req' = query
    /\ normalized' = validateQueryParams(query, clockYear)
    /\ UNCHANGED <<clips, clockYear, res, page1, wrote, env, codecVars, monthVars, timeVars, timingVars, batchVars, writeVars, hookVars>>

\* The request is over: its query and the normalized query are discarded.
Discard ==
    /\ ~Idle
    /\ req' = NoQuery
    /\ normalized' = NoNormalized
    /\ UNCHANGED <<clips, clockYear, res, page1, wrote, env, codecVars, monthVars, timeVars, timingVars, batchVars, writeVars, hookVars>>

QueryNext ==
    \/ \E query \in QueryRequests : Validate(query)
    \/ Discard
    \/ NewYear

SpecQuery == IdleInit /\ [][QueryNext]_vars

-----------------------------------------------------------------------------
(* The listing endpoint with storage: clips are written, a client asks for  *)
(* a page and follows its nextCursor.                                        *)

\* Bound: the number of clips in storage.
MaxClips == 3

Day(y, m, d) == YearMonth(y, m) \o <<"-">> \o Pad(d, 2)

C1Text == <<"c", "1">>
C2Text == <<"c", "2">>

\* The clips that get written: with and without a serviceDate, an episode, a
\* Timestamp createdAt; episode fields whose digits are 007, 012, 7 and 7 then 12.
ClipPool ==
    {Clip(1, C1Text, Day(2026, 2, 10), <<"E", "P", "0", "0", "7">>, 3, 100),
     Clip(2, C1Text, <<>>, <<"E", "P", "0", "1", "2">>, 0, 0),
     Clip(3, C2Text, Day(2026, 3, 1), <<"7">>, 1, 300),
     Clip(4, C1Text, Day(2026, 2, 28), <<>>, 2, 400),
     Clip(5, C2Text, Day(2026, 1, 31), <<"E", "P", "7", "b", "1", "2">>, 5, 0)}

\* The value Date.now() takes.
NowValues == {5000}

\* The requests made: with and without a category, a month, an episode; either
\* sort; limit absent and 1; and cursors absent, well-formed and malformed.
ListCursorTexts ==
    {encodeCursor(SomeMostSavedCursor).s,
     encodeCursor(JsObj(<<Fld(KServiceDate, JsNum(5)), Fld(KCreatedAtMs, JsNum(1))>>)).s,
     ToBase64Url(<<"{">>)}

ListRequests ==
    {RawQuery(c, m, IF m.p THEN SomeText(NatToStr(2026)) ELSE NoText, e, s, l, k) :
        c \in Opt({C1Text}), m \in Opt({<<"0", "2">>}), e \in Opt({<<"7">>}),
        s \in Opt({SMostSaved}), l \in Opt({<<"1">>}), k \in Opt(ListCursorTexts)}

\* The storage with one more clip, in document-id order.
Insert(storage, d) ==
    SelectSeq(storage, LAMBDA x : x.id < d.id) \o <<d>>
    \o SelectSeq(storage, LAMBDA x : x.id > d.id)

\* A clip document is written to the clips collection (saveClips, or any other
\* writer of the collection).
AddClip(d) ==
    /\ Len(clips) < MaxClips
    /\ \A i \in 1..Len(clips) : clips[i].id # d.id
    /\ clips' = Insert(clips, d)
    /\ wrote' = TRUE
    /\ UNCHANGED <<clockYear, req, env, normalized, res, page1, codecVars, monthVars, timeVars, timingVars, batchVars, writeVars, hookVars>>

\* GET /api/clips with a query.
ListClips(query, now) ==
    /\ Idle
    /\ req' = query
    /\ env' = Env(now, NoText)
    /\ normalized' = validateQueryParams(query, clockYear)
    /\ res' = Respond(clips, normalized', now, NoText)
    /\ page1' = NoPage
    /\ wrote' = FALSE
    /\ UNCHANGED <<clips, clockYear, codecVars, monthVars, timeVars, timingVars, batchVars, writeVars, hookVars>>

SStorageDown ==
    <<"s", "t", "o", "r", "a", "g", "e", " ", "d", "o", "w", "n">>
SNoIndex ==
    <<"n", "o", " ", "i", "n", "d", "e", "x">>
SIndexPermission ==
    <<"i", "n", "d", "e", "x", " ", "p", "e", "r", "m", "i", "s", "s", "i", "o",
      "n">>
SPermissionDenied ==
    <<"p", "e", "r", "m", "i", "s", "s", "i", "o", "n", " ", "d", "e", "n", "i",
      "e", "d">>
SPermissionQuota ==
    <<"p", "e", "r", "m", "i", "s", "s", "i", "o", "n", " ", "q", "u", "o", "t",
      "a">>
SQuotaExceeded ==
    <<"q", "u", "o", "t", "a", " ", "e", "x", "c", "e", "e", "d", "e", "d">>
SRateLimit ==
    <<"r", "a", "t", "e", " ", "l", "i", "m", "i", "t">>
SIndexQuotaCapitals ==
    <<"I", "n", "d", "e", "x", " ", "Q", "u", "o", "t", "a">>

\* The messages of the errors storage throws.
FaultMessages ==
    {SStorageDown, SNoIndex, SIndexPermission, SPermissionDenied, SPermissionQuota,
     SQuotaExceeded, SRateLimit, SIndexQuotaCapitals}

\* Requests that validateQueryParams refuses: month 13, a categoryId with "<", an
\* episode that is 0, an episode that is no number.
InvalidRequests ==
    {RawQuery(NoText, SomeText(<<"1", "3">>), SomeText(NatToStr(2026)), NoText, NoText,
              NoText, NoText),
     RawQuery(SomeText(<<"c", "<", "1">>), NoText, NoText, NoText, NoText, NoText, NoText),
     RawQuery(NoText, NoText, NoText, SomeText(<<"0">>), NoText, NoText, NoText),
     RawQuery(NoText, NoText, NoText, SomeText(<<"a", "b", "c">>), NoText, NoText, NoText)}

\* Requests for pages of two clips, in either sort.
TwoClipRequests ==
    {RawQuery(NoText, NoText, NoText, NoText, s, SomeText(<<"2">>), NoText) :
        s \in Opt({SMostSaved})}

\* GET /api/clips when storage throws.
ListClipsFails(query, now, message) ==
    /\ Idle
    /\ req' = query
    /\ env' = Env(now, SomeText(message))
    /\ normalized' = validateQueryParams(query, clockYear)
    /\ res' = Respond(clips, normalized', now, SomeText(message))
    /\ page1' = NoPage
    /\ wrote' = FALSE
    /\ UNCHANGED <<clips, clockYear, codecVars, monthVars, timeVars, timingVars, batchVars, writeVars, hookVars>>

\* loadMore of the client: the same request again, with the nextCursor of the
\* response as its cursor.
LoadMore(now) ==
    /\ ~Idle /\ res.status = 200 /\ res.nextCursor.p
    /\ LET query == [req EXCEPT !.cursor = res.nextCursor] IN
        /\ req' = query
        /\ env' = Env(now, NoText)
        /\ normalized' = validateQueryParams(query, clockYear)
        /\ res' = Respond(clips, normalized', now, NoText)
    /\ page1' = [followed |-> TRUE, res |-> res, wroteBefore |-> wrote]
    /\ wrote' = FALSE
    /\ UNCHANGED <<clips, clockYear, codecVars, monthVars, timeVars, timingVars, batchVars, writeVars, hookVars>>

\* The client is done with the listing.
Leave ==
    /\ ~Idle
    /\ req' = NoQuery
    /\ env' = NoEnv
    /\ normalized' = NoNormalized
    /\ res' = NoResponse
    /\ page1' = NoPage
    /\ wrote' = FALSE
    /\ UNCHANGED <<clips, clockYear, codecVars, monthVars, timeVars, timingVars, batchVars, writeVars, hookVars>>

Init == IdleInit

Next ==
    \/ \E d \in ClipPool : AddClip(d)
    \/ \E query \in ListRequests \cup InvalidRequests \cup TwoClipRequests, now \in NowValues :
          ListClips(query, now)
    \/ \E now \in NowValues, message \in FaultMessages :
          ListClipsFails(NoQuery, now, message)   \* no parameters
    \/ \E now \in NowValues : LoadMore(now)
    \/ Leave

Spec == Init /\ [][Next]_vars

-----------------------------------------------------------------------------
(* Category pages over a large category: CSV imports fill one category, and *)
(* a client asks for the category page.                                      *)

\* POST /import takes at most 100 clips a request.
ImportMax == 100

\* The sizes of the imports made.
ImportSizes == {ImportMax \div 2, ImportMax}

\* The clips an import of n rows writes after the clips in storage: each with the
\* category and the episode of its row, a createdAt that is an ISO string, and no
\* serviceDate and no savedCount.  The ids are new ones.
Imported(storage, n, categoryId, episode) ==
    [k \in 1..n |-> Clip(Len(storage) + k, categoryId, <<>>, episode, 0, 0)]

\* POST /import with n rows of one category and episode, every row saved.  (Left
\* out: the admin check, the titles, the video extraction, the videos collection.)
ImportClips(n, categoryId, episode) ==
    /\ n \in 1..ImportMax
    /\ Len(clips) <= CategoryFetchLimit
    /\ clips' = clips \o Imported(clips, n, categoryId, episode)
    /\ wrote' = TRUE
    /\ UNCHANGED <<clockYear, req, env, normalized, res, page1, codecVars, monthVars, timeVars, timingVars, batchVars, writeVars, hookVars>>

\* The category page requests made: with and without a limit and an episode.
CapRequests ==
    {RawQuery(SomeText(C1Text), NoText, NoText, e, NoText, l, NoText) :
        e \in Opt({<<"7">>, <<"8">>}), l \in Opt({<<"1">>})}

CapNext ==
    \/ \E n \in ImportSizes : ImportClips(n, C1Text, <<"E", "P", "0", "0", "7">>)
    \/ \E query \in CapRequests, now \in NowValues : ListClips(query, now)
    \/ Leave

SpecCap == IdleInit /\ [][CapNext]_vars

-----------------------------------------------------------------------------
(* Properties of the codec (SpecCursor) *)

Keys(obj) == {obj.f[i].k : i \in 1..Len(obj.f)}

\* Exactly the fields of a Recent cursor, or exactly those of a MostSaved one.
ExactRecent(c) ==
    /\ c.t = "object" /\ Len(c.f) = 2 /\ Keys(c) = {KServiceDate, KCreatedAtMs}
    /\ TypeOf(Get(c, KServiceDate)) = "string"
    /\ TypeOf(Get(c, KCreatedAtMs)) = "number"

ExactMostSaved(c) ==
    /\ c.t = "object" /\ Len(c.f) = 2 /\ Keys(c) = {KSavedCount, KCreatedAtMs}
    /\ TypeOf(Get(c, KSavedCount)) = "number"
    /\ TypeOf(Get(c, KCreatedAtMs)) = "number"

\* Every field of type number holds a finite number.
FiniteFields(c) == \A i \in 1..Len(c.f) : TypeOf(c.f[i].v) = "number" => c.f[i].v.t = "number"

EncodedThenDecoded == cursorObj # Pending /\ cursorOut # Pending

\* C2 as stated: for every Recent cursor {serviceDate: string, createdAtMs:
\* number} and every MostSaved cursor {savedCount: number, createdAtMs: number},
\* decodeCursor(encodeCursor(c)) is equal to c, field for field.
C2_RoundTripEveryNumber ==
    (EncodedThenDecoded /\ (ExactRecent(cursorObj) \/ ExactMostSaved(cursorObj)))
        => StrictEq(cursorOut, cursorObj)

\* C2 amended: for every Recent and every MostSaved cursor whose number fields are
\* finite, decodeCursor(encodeCursor(c)) is equal to c, field for field.
C2_RoundTripFinite ==
    (EncodedThenDecoded /\ (ExactRecent(cursorObj) \/ ExactMostSaved(cursorObj))
        /\ FiniteFields(cursorObj))
        => StrictEq(cursorOut, cursorObj)

\* A MostSaved cursor, and a Recent cursor whose date has the two characters JSON
\* escapes, have gone through encodeCursor and decodeCursor.
C2_Witness ==
    /\ EncodedThenDecoded /\ FiniteFields(cursorObj)
    /\ \/ ExactMostSaved(cursorObj)
       \/ ExactRecent(cursorObj) /\ Get(cursorObj, KServiceDate).s = <<"\"", "\\">>

\* C4 as stated: decodeCursor returns a non-null cursor only for an object with
\* exactly the fields serviceDate (string) and createdAtMs (number), or exactly
\* savedCount (number) and createdAtMs (number); an object with any other field, or
\* with both serviceDate and savedCount, gives null.
C4_ClosedShape ==
    (cursorOut # Pending /\ cursorOut # JsNull)
        => (ExactRecent(cursorOut) \/ ExactMostSaved(cursorOut))

-----------------------------------------------------------------------------
(* Properties of parseMonthRange (SpecMonth) *)

LeapYear(y) == y % 4 = 0 /\ (y % 100 # 0 \/ y % 400 = 0)

\* The number of days of month m of year y, by the calendar.
DaysInMonth(y, m) ==
    IF m = 2 THEN (IF LeapYear(y) THEN 29 ELSE 28)
    ELSE IF m \in {4, 6, 9, 11} THEN 30 ELSE 31

\* Each YYYY-MM of the years MinYear..MaxYear and the months 01..12, with the
\* first and the last calendar day of that month.
CalendarMonths ==
    {[text |-> YearMonth(y, m),
      range |-> [ok |-> TRUE,
                 start |-> YearMonth(y, m) \o <<"-", "0", "1">>,
                 end |-> YearMonth(y, m) \o <<"-">> \o Pad(DaysInMonth(y, m), 2)]] :
        y \in MinYear..MaxYear, m \in 1..12}

\* C8: on a "YYYY-MM" text with month in 01..12 and year in 2000..2100,
\* parseMonthRange returns the range from the first to the last calendar day of
\* that month (February ends on 28, or on 29 in a leap year); on any other text it
\* returns null.
C8_MonthRange ==
    monthArg.p =>
        IF \E e \in CalendarMonths : e.text = monthArg.s
        THEN \A e \in CalendarMonths : e.text = monthArg.s => monthOut = e.range
        ELSE monthOut = MonthNull

\* parseMonthRange has answered for February of 2024 (a leap year), or for
\* February of 2100 (not one), or for December, or has rejected month 13.
C8_Witness ==
    /\ monthArg.p
    /\ \/ monthArg.s = YearMonth(2024, 2) /\ monthOut.ok
       \/ monthArg.s = YearMonth(2100, 2) /\ monthOut.ok
       \/ monthArg.s = YearMonth(2025, 12) /\ monthOut.ok
       \/ monthArg.s = YearMonth(2025, 13) /\ ~monthOut.ok

-----------------------------------------------------------------------------
(* Properties of validateQueryParams (SpecQuery) *)

Normalized == ~Idle /\ normalized.err = <<>>

\* The cursor has the field pair of the sort mode, with the types of that shape.
ShapeOfSort(c, sort) ==
    IF sort = "mostSaved"
    THEN /\ HasKey(c, KSavedCount) /\ HasKey(c, KCreatedAtMs)
         /\ TypeOf(Get(c, KSavedCount)) = "number"
         /\ TypeOf(Get(c, KCreatedAtMs)) = "number"
         /\ ~HasKey(c, KServiceDate)
    ELSE /\ HasKey(c, KServiceDate) /\ HasKey(c, KCreatedAtMs)
         /\ TypeOf(Get(c, KServiceDate)) = "string"
         /\ TypeOf(Get(c, KCreatedAtMs)) = "number"
         /\ ~HasKey(c, KSavedCount)

\* C3 as stated: a cursor whose shape does not match the active sort mode is
\* rejected: the normalized query has a cursor only if the decoded object has the
\* field pair of the request's sort mode (a MostSaved cursor under sort recent, a
\* Recent cursor under sort mostSaved, an object without the pair: no cursor).
C3_CursorMatchesSort ==
    (Normalized /\ normalized.cursor # JsNull)
        => ShapeOfSort(normalized.cursor, normalized.sort)

\* Only the limit and the sort parameters are given.
OnlyLimitAndSort ==
    /\ ~req.categoryId.p /\ ~req.month.p /\ ~req.year.p /\ ~req.episode.p
    /\ ~req.cursor.p

\* parseInt finds no number in the text: after leading whitespace and one sign
\* there is no digit.
Unparseable(s) ==
    LET t == TrimLeft(s)
        u == IF t # <<>> /\ Head(t) \in {"+", "-"} THEN Tail(t) ELSE t
    IN u = <<>> \/ ~IsDigit(Head(u))

\* The decimal texts of -99..999, each with the limit it is to give.
DecimalLimits ==
    {[text |-> IntToStr(n), limit |-> IF n < 1 THEN 1 ELSE IF n > 50 THEN 50 ELSE n] :
        n \in -99..999}

C9_MonthAccepted ==
    (/\ ~Idle /\ req.month.p /\ ~req.year.p
     /\ ~req.categoryId.p /\ ~req.episode.p
     /\ \E e \in CalendarMonths : e.text = req.month.s)
        => (normalized.err = <<>> /\ normalized.month = req.month)

-----------------------------------------------------------------------------
(* Properties of the listing endpoint (Spec) *)

Ids(items) == {items[i].id : i \in 1..Len(items)}

\* C1 as stated: with no write to storage between the two requests, a
\* non-category request and the follow-up request that passes the first response's
\* nextCursor (same sort, filters and limit) return items with no clip id in
\* common.
C1_PagesDisjoint ==
    (/\ page1.followed /\ ~page1.wroteBefore
     /\ res.status = 200 /\ ~req.categoryId.p)
        => Ids(page1.res.items) \cap Ids(res.items) = {}

\* decodeCursor gives null for every malformed cursor text.
MalformedDecodeToNull ==
    \A t \in MalformedCursorTexts : decodeCursor(SomeText(t)) = JsNull

InMonth(serviceDate, month) ==
    \E e \in CalendarMonths :
        /\ e.text = month
        /\ StrLeq(e.range.start, serviceDate) /\ StrLeq(serviceDate, e.range.end)

\* C10 as stated: when a month filter is requested, every returned item has a
\* serviceDate and it lies within the first-day..last-day range of the month; a
\* clip with no serviceDate is never returned.
C10_MonthFilter ==
    (~Idle /\ res.status = 200 /\ normalized.month.p)
        => \A i \in 1..Len(res.items) :
              /\ res.items[i].serviceDate # <<>>
              /\ InMonth(res.items[i].serviceDate, normalized.month.s)

-----------------------------------------------------------------------------
(* Properties of category pages (SpecCap) *)

\* C6 as stated: when categoryId is supplied, the response carries no nextCursor
\* (hasMore is false) and items has every clip of that category in storage that
\* passes the month and episode filters, whatever the limit parameter is.
C6_CategoryOnePage ==
    (~Idle /\ ~wrote /\ res.status = 200 /\ normalized.categoryId.p)
        => /\ ~res.nextCursor.p /\ ~res.hasMore
           /\ \A i \in 1..Len(clips) :
                 (/\ clips[i].categoryId = normalized.categoryId.s
                  /\ PassesFilters(clips[i], normalized.month, normalized.episode))
                     => clips[i].id \in Ids(res.items)

\* C11 as stated: when an episode filter is requested, a clip is returned only if
\* the first run of digits of its episode field is the requested episode value,
\* character for character; a clip whose episode field has no digits is not
\* returned.
C11_EpisodeFilter ==
    (~Idle /\ res.status = 200 /\ normalized.episode.p)
        => \A i \in 1..Len(res.items) :
              /\ FirstDigits(res.items[i].episode).p
              /\ FirstDigits(res.items[i].episode).s = normalized.episode.s

\* C12 as stated: every validation failure of the listing parameters (invalid
\* month, invalid categoryId, invalid episode number) is answered with status 400
\* and the validation message, never with a server-error status.
C12_ValidationIs400 ==
    (~Idle /\ normalized.err # <<>> /\ res # NoResponse)
        => (res.status = 400 /\ res.error = normalized.err)

\* The storage messages, each with the status the rule gives it: "index" 503,
\* otherwise "permission" 403, otherwise "quota" or "rate" 429, otherwise 500.
ClassifiedFaults ==
    {[msg |-> SNoIndex, status |-> 503], [msg |-> SIndexPermission, status |-> 503],
     [msg |-> SPermissionDenied, status |-> 403],
     [msg |-> SPermissionQuota, status |-> 403],
     [msg |-> SQuotaExceeded, status |-> 429], [msg |-> SRateLimit, status |-> 429],
     [msg |-> SIndexQuotaCapitals, status |-> 500],
     [msg |-> SStorageDown, status |-> 500]}

TimeParsed == timeArg # Pending

\* The texts of the time inputs that keep to no form of the claim and are accepted
\* all the same, each with the value its parts spell.
LenientTimes ==
    {[text |-> <<" ", "1", "2", ":", "3", "4", " ">>, value |-> 754],
     [text |-> <<"1", ":", "2">>, value |-> 62],
     [text |-> <<"1", "a", ":", "0", "2">>, value |-> 62],
     [text |-> <<"1", "2", ":", "3", "x">>, value |-> 723],
     [text |-> <<"+", "1", ":", "0", "2">>, value |-> 62],
     [text |-> <<"1", ":", " ", "2">>, value |-> 62],
     [text |-> <<"1", ".", "5", ":", "0", "2">>, value |-> 62],
     [text |-> <<"0", "0", "7">>, value |-> 7]}

\* The value the claim gives an input, by the form of the input; -1 for an input
\* of none of the forms.
ClaimedSeconds(input) ==
    IF \E n \in SecondCounts : input \in {JsNum(n), JsStr(NatToStr(n))}
    THEN CHOOSE n \in SecondCounts : input \in {JsNum(n), JsStr(NatToStr(n))}
    ELSE IF \E m \in TwoPartMinutes, sec \in TwoPartSeconds : input = JsStr(MinutesSeconds(m, sec))
    THEN LET p == CHOOSE q \in TwoPartMinutes \X TwoPartSeconds :
                      input = JsStr(MinutesSeconds(q[1], q[2]))
         IN p[1] * 60 + p[2]
    ELSE IF \E h \in ThreePartHours, m \in ThreePartMinutes, sec \in ThreePartSeconds :
                input = JsStr(HoursMinutesSeconds(h, m, sec))
    THEN LET p == CHOOSE q \in ThreePartHours \X ThreePartMinutes \X ThreePartSeconds :
                      input = JsStr(HoursMinutesSeconds(q[1], q[2], q[3]))
         IN p[1] * 3600 + p[2] * 60 + p[3]
    ELSE IF \E e \in LenientTimes : input = JsStr(e.text)
    THEN (CHOOSE e \in LenientTimes : input = JsStr(e.text)).value
    ELSE -1

\* C14: for an accepted input parseTimeToSeconds returns m*60+s for a two-part
\* mm:ss string, h*3600+m*60+s for a three-part hh:mm:ss string, and the number
\* itself for an all-digit string or a non-negative integer ("12:34" gives 754,
\* "1:02:03" gives 3723, "90" and 90 give 90).
C14_AcceptedValue ==
    (TimeParsed /\ timeOut.ok) => timeOut.value = ClaimedSeconds(timeArg)

\* "1:02:03" was parsed and gave 3723.
C14_Witness ==
    /\ TimeParsed /\ timeArg = JsStr(HoursMinutesSeconds(1, 2, 3))
    /\ timeOut = Seconds(3723)

\* The number of colons of a text.
Colons(s) == Cardinality({i \in 1..Len(s) : s[i] = ":"})

\* C15: parseTimeToSeconds fails when a colon-separated part after the first is 60
\* or more ("12:60" fails), when the first part of a two-part input exceeds 1440,
\* and when an input that is not all digits splits into fewer than 2 or more than
\* 3 parts.
C15_PartLimits ==
    TimeParsed =>
        /\ \A m \in TwoPartMinutes, sec \in TwoPartSeconds :
              (timeArg = JsStr(MinutesSeconds(m, sec)) /\ (sec >= 60 \/ m > 1440))
                  => ~timeOut.ok
        /\ \A h \in ThreePartHours, m \in ThreePartMinutes, sec \in ThreePartSeconds :
              (timeArg = JsStr(HoursMinutesSeconds(h, m, sec)) /\ (m >= 60 \/ sec >= 60))
                  => ~timeOut.ok
        /\ (/\ timeArg.t = "string"
            /\ \E i \in 1..Len(timeArg.s) : ~IsDigit(timeArg.s[i]) /\ ~IsSpace(timeArg.s[i])
            /\ Colons(timeArg.s) + 1 \notin {2, 3})
               => ~timeOut.ok

\* "12:60" was parsed and failed.
C15_Witness ==
    /\ TimeParsed /\ timeArg = JsStr(MinutesSeconds(12, 60)) /\ ~timeOut.ok

\* C16 as stated: parseTimeToSeconds returns no value greater than 86400, whatever
\* form the input takes (hh:mm:ss, mm:ss, an all-digit string, or a number).
C16_AtMost24Hours ==
    (TimeParsed /\ timeOut.ok) => timeOut.value <= 86400

\* validateClipTiming was called and has returned.
TimingDone == timingOut # NoValidation

\* The unit-conversion pattern of a start or end value, in the claim's words.
ConversionPattern(value) == value > 7200 /\ value % 3600 < 60 /\ value \div 3600 < 90

\* The severity the claim gives a clip.
ClaimedSeverity(clip) ==
    LET duration == clip.endTimeSeconds - clip.startTimeSeconds
    IN IF duration < 0 \/ duration > 1800 \/ clip.startTimeSeconds > 14400 THEN "high"
       ELSE IF \/ duration = 0
               \/ ConversionPattern(clip.startTimeSeconds)
               \/ ConversionPattern(clip.endTimeSeconds)
       THEN "medium"
       ELSE "low"

\* C17: the severity validateClipTiming returns is the greatest of the checks that
\* triggered: high whenever negative duration, duration > 1800 or start > 14400
\* holds (start=100, end=90 gives isValid=false and severity high); medium when
\* none of those holds but zero duration or a unit-conversion pattern does; low
\* otherwise.
C17_SeverityIsMax ==
    TimingDone =>
        /\ timingOut.severity = ClaimedSeverity(timingClip)
        /\ timingClip = ClipTimeData(100, 90)
              => (~timingOut.isValid /\ timingOut.severity = "high")

\* A clip of zero duration that starts more than 4 hours into the video was
\* validated: the medium of the zero duration did not outlast the high of the start.
C17_Witness ==
    /\ TimingDone /\ timingClip = ClipTimeData(14459, 14459)
    /\ timingOut.severity = "high" /\ Len(timingOut.issues) = 4

\* The issues that report a suspected conversion of the start, of the end.
StartConversionText ==
    <<"S", "t", "a", "r", "t", " ", "t", "i", "m", "e", " ", "m", "i", "g", "h",
      "t", " ", "b", "e", " ", "i", "n", "c", "o", "r", "r", "e", "c", "t", "l",
      "y", " ", "c", "o", "n", "v", "e", "r", "t", "e", "d">>
EndConversionText ==
    <<"E", "n", "d", " ", "t", "i", "m", "e", " ", "m", "i", "g", "h", "t", " ",
      "b", "e", " ", "i", "n", "c", "o", "r", "r", "e", "c", "t", "l", "y", " ",
      "c", "o", "n", "v", "e", "r", "t", "e", "d">>
NoActionText ==
    <<"N", "o", " ", "a", "c", "t", "i", "o", "n", " ", "n", "e", "e", "d", "e",
      "d">>
StartConversionIssues(issues) ==
    {i \in 1..Len(issues) : StartsAt(issues[i], 1, StartConversionText)}
EndConversionIssues(issues) ==
    {i \in 1..Len(issues) : StartsAt(issues[i], 1, EndConversionText)}

\* C18 as stated: a clip with start=3661 and end=3700 is flagged as a suspected
\* unit-conversion error: isValid is false and issues holds a conversion-error entry.
C18_Flagged ==
    (TimingDone /\ timingClip = ClipTimeData(3661, 3700))
        => /\ ~timingOut.isValid
           /\ StartConversionIssues(timingOut.issues) \cup EndConversionIssues(timingOut.issues) # {}

\* C18 as amended: a clip with start=3661 and end=3700 is not flagged, since neither
\* value is above 7200 (nor is 3661 mod 3600 = 61 or 3700 mod 3600 = 100 below
\* 60): isValid is true and issues is empty.  A clip with
\* start=10801 and end=10840 (both just over three hours) is flagged: isValid is
\* false and issues holds a conversion-error entry for the start and one for the end.
C18_FlaggedOverTwoHours ==
    TimingDone =>
        /\ timingClip = ClipTimeData(3661, 3700)
              => (timingOut.isValid /\ timingOut.issues = <<>>)
        /\ timingClip = ClipTimeData(10801, 10840)
              => /\ ~timingOut.isValid
                 /\ StartConversionIssues(timingOut.issues) # {}
                 /\ EndConversionIssues(timingOut.issues) # {}

\* The clip with start=3661 and end=3700 was validated and found valid.
C18_Witness ==
    TimingDone /\ timingClip = ClipTimeData(3661, 3700) /\ timingOut.isValid

\* C19: for start and for end independently, validateClipTiming adds a
\* unit-conversion issue exactly when the value is > 7200, (value mod 3600) < 60
\* and floor(value / 3600) < 90; whenever such an issue is added the severity is
\* medium or high, never low.
C19_ConversionIssues ==
    TimingDone =>
        /\ Cardinality(StartConversionIssues(timingOut.issues))
              = (IF ConversionPattern(timingClip.startTimeSeconds) THEN 1 ELSE 0)
        /\ Cardinality(EndConversionIssues(timingOut.issues))
              = (IF ConversionPattern(timingClip.endTimeSeconds) THEN 1 ELSE 0)
        /\ StartConversionIssues(timingOut.issues) \cup EndConversionIssues(timingOut.issues) # {}
              => timingOut.severity \in {"medium", "high"}

\* A clip whose end shows the pattern and whose start does not was validated: one
\* issue, about the end, and severity medium.
C19_Witness ==
    /\ TimingDone /\ timingClip = ClipTimeData(7200, 7201)
    /\ StartConversionIssues(timingOut.issues) = {}
    /\ EndConversionIssues(timingOut.issues) # {}
    /\ timingOut.severity = "medium"

\* C20: validateClipTiming returns isValid = true exactly when issues is empty, and
\* issues is empty for every clip with 30 <= end - start <= 1800, start <= 14400
\* and no unit-conversion pattern on start or end (for example start=0, end=120);
\* such a result has severity low and the suggested action 'No action needed'.
C20_ValidClips ==
    TimingDone =>
        /\ timingOut.isValid <=> timingOut.issues = <<>>
        /\ (/\ timingClip.endTimeSeconds - timingClip.startTimeSeconds >= 30
            /\ timingClip.endTimeSeconds - timingClip.startTimeSeconds <= 1800
            /\ timingClip.startTimeSeconds <= 14400
            /\ ~ConversionPattern(timingClip.startTimeSeconds)
            /\ ~ConversionPattern(timingClip.endTimeSeconds))
               => /\ timingOut.isValid
                  /\ timingOut.issues = <<>>
                  /\ timingOut.severity = "low"
                  /\ timingOut.suggestedAction = NoActionText

\* The clip with start=0 and end=120 was validated and found valid.
C20_Witness ==
    /\ TimingDone /\ timingClip = ClipTimeData(0, 120)
    /\ timingOut.isValid /\ timingOut.severity = "low"

\* batchValidateClips was called and has returned.
BatchDone == batchOut # NoBatch

\* The ids of a list of clips, in the order of the list.
IdsInOrder(list) == [i \in 1..Len(list) |-> list[i].id]

\* The ids of a list rise from first to last: the list keeps the order of the batch
\* and holds no clip twice.
Rising(ids) == \A i \in 1..(Len(ids) - 1) : ids[i] < ids[i + 1]

\* C21: batchValidateClips places every input clip in exactly one of validClips
\* (when validateClipTiming reports it valid) or flaggedClips, keeping input order
\* in each list, with summary.valid + summary.flagged = summary.total = number of
\* input clips and highSeverity + mediumSeverity + lowSeverity = summary.flagged.
C21_BatchPartition ==
    BatchDone =>
        LET valid == IdsInOrder(batchOut.validClips)
            flagged == IdsInOrder(batchOut.flaggedClips)
            summary == batchOut.summary
        IN /\ \A i \in 1..Len(batchIn) :
                 /\ (\E k \in 1..Len(valid) : batchOut.validClips[k] = batchIn[i])
                       <=> validateClipTiming(batchIn[i]).isValid
                 /\ (\E k \in 1..Len(flagged) : flagged[k] = batchIn[i].id)
                       <=> ~validateClipTiming(batchIn[i]).isValid
           /\ Rising(valid) /\ Rising(flagged)
           /\ \A k \in 1..Len(flagged) :
                 batchOut.flaggedClips[k]
                     = Flagged(batchIn[flagged[k]], validateClipTiming(batchIn[flagged[k]]))
           /\ summary.valid = Len(valid) /\ summary.flagged = Len(flagged)
           /\ summary.valid + summary.flagged = summary.total
           /\ summary.total = Len(batchIn)
           /\ summary.highSeverity + summary.mediumSeverity + summary.lowSeverity
                 = summary.flagged

\* A batch of a valid clip between two flagged ones of different severity was
\* validated.
C21_Witness ==
    /\ BatchDone /\ Len(batchIn) = 3
    /\ batchOut.summary.valid = 1 /\ batchOut.summary.highSeverity = 1
    /\ batchOut.summary.lowSeverity = 1
    /\ IdsInOrder(batchOut.flaggedClips) = <<1, 3>>

\* The response answers the request from storage as it is now.
Answered == ~Idle /\ ~wrote /\ res.status = 200

\* The rows the storage query of a request without category returns: the first
\* limit documents.
RowsFetched(limit) == SubSeq(clips, 1, IF Len(clips) < limit THEN Len(clips) ELSE limit)

\* The cursor text carries the field of the sort, with the value of the row.
CarriesFieldOf(text, sort, row) ==
    LET c == decodeCursor(SomeText(text))
    IN IF sort = "mostSaved"
       THEN HasKey(c, KSavedCount) /\ Get(c, KSavedCount) = JsNum(row.savedCount)
       ELSE HasKey(c, KServiceDate) /\ Get(c, KServiceDate) = JsStr(row.serviceDate)

\* C22: for a non-category listing request a nextCursor is emitted exactly when the
\* returned page is full (items.length = limit) and the storage fetch returned at
\* least one row, and meta.hasMore is true exactly when nextCursor is present; an
\* emitted cursor carries savedCount when sort is mostSaved and serviceDate when
\* sort is recent, taken from the last row returned by storage.
C22_NextCursorEmission ==
    (Answered /\ ~normalized.categoryId.p) =>
        LET rows == RowsFetched(normalized.limit)
        IN /\ res.nextCursor.p <=> (Len(res.items) = normalized.limit /\ Len(rows) > 0)
           /\ res.hasMore <=> res.nextCursor.p
           /\ res.nextCursor.p
                 => CarriesFieldOf(res.nextCursor.s, normalized.sort, rows[Len(rows)])

\* A full page of two clips was returned whose last item is not the last row
\* storage returned, with a cursor.
C22_Witness ==
    /\ Answered /\ ~normalized.categoryId.p /\ res.nextCursor.p
    /\ Len(res.items) = 2
    /\ res.items[2].id # RowsFetched(2)[2].id

\* C25 as stated: when both a month filter and an episode filter are requested,
\* every returned item satisfies both: its serviceDate lies in the range of the
\* requested month and the first digit run of its episode field equals the
\* requested episode.
C25_MonthAndEpisode ==
    (~Idle /\ res.status = 200 /\ normalized.month.p /\ normalized.episode.p)
        => \A i \in 1..Len(res.items) :
              /\ res.items[i].serviceDate # <<>>
              /\ InMonth(res.items[i].serviceDate, normalized.month.s)
              /\ FirstDigits(res.items[i].episode).p
              /\ FirstDigits(res.items[i].episode).s = normalized.episode.s

\* The number an episode field sorts by: the value of its first run of digits, 0
\* when it has none.
RECURSIVE EpisodeValue(_)
EpisodeValue(ep) ==
    IF ep = <<>> THEN 0
    ELSE IF ~IsDigit(Head(ep)) THEN EpisodeValue(Tail(ep))
    ELSE LET n == CHOOSE k \in 1..Len(ep) :
                      /\ \A j \in 1..k : IsDigit(ep[j])
                      /\ k = Len(ep) \/ ~IsDigit(ep[k + 1])
         IN DigitsToNat(SubSeq(ep, 1, n))

\* C26: the items of every listing response, category-scoped or not, are ordered by
\* the numeric value of the first digit run of their episode field, non-increasing
\* from first to last, an item with no digits counting as 0; for a request without
\* category the page is cut to limit after the sort, so that no fetched clip that
\* passes the filters and is left out has a larger number than a returned one.
C26_EpisodeOrder ==
    Answered =>
        /\ \A i \in 1..(Len(res.items) - 1) :
              EpisodeValue(res.items[i].episode) >= EpisodeValue(res.items[i + 1].episode)
        /\ ~normalized.categoryId.p =>
              /\ Len(res.items) <= normalized.limit
              /\ \A k \in 1..Len(RowsFetched(normalized.limit)) :
                    LET row == RowsFetched(normalized.limit)[k]
                    IN (/\ PassesFilters(row, normalized.month, normalized.episode)
                        /\ \A i \in 1..Len(res.items) : res.items[i].id # row.id)
                           => \A i \in 1..Len(res.items) :
                                 EpisodeValue(res.items[i].episode)
                                     >= EpisodeValue(row.episode)

\* A page of three clips was returned, of episode numbers 12, 7 and 0, stored in
\* another order.
C26_Witness ==
    /\ Answered /\ Len(res.items) = 3
    /\ EpisodeValue(res.items[1].episode) = 12
    /\ EpisodeValue(res.items[2].episode) = 7
    /\ EpisodeValue(res.items[3].episode) = 0
    /\ res.items[1].id > res.items[2].id

\* Every colon-separated part of a text is made up of decimal digits only, and of
\* at least one.
DigitParts(s) ==
    /\ s # <<>> /\ s[1] # ":" /\ s[Len(s)] # ":"
    /\ \A i \in 1..Len(s) : IsDigit(s[i]) \/ s[i] = ":"
    /\ \A i \in 1..(Len(s) - 1) : ~(s[i] = ":" /\ s[i + 1] = ":")

\* C27 as stated: parseTimeToSeconds fails for a colon-separated string in which
\* any part is not made up entirely of decimal digits (an empty part "1::3", a
\* signed part "-5:30", a part with trailing non-digit characters "12:3x"), and for
\* a string with no colon that is not all digits ("-5").
C27_DigitPartsOnly ==
    (TimeParsed /\ timeArg.t = "string" /\ ~DigitParts(Trim(timeArg.s))) => ~timeOut.ok

\* C29: the two implementations of parseTimeToSeconds, the one of parse.ts and the
\* one of parse.js, agree on every input: they accept the same inputs and return
\* the same number of seconds for each.
C29_SameResult ==
    TimeParsed =>
        /\ timeOut.ok <=> timeJsOut.ok
        /\ timeOut.ok => timeOut.value = timeJsOut.value

\* "24:00:00" was given to both implementations and both returned 86400, the
\* largest total either accepts.
C29_Witness ==
    /\ TimeParsed /\ timeArg = JsStr(HoursMinutesSeconds(24, 0, 0))
    /\ timeOut = Seconds(86400) /\ timeJsOut = Seconds(86400)

-----------------------------------------------------------------------------
(* The clips the admin routes write *)

\* The times of a manual request as the handler reads them.
ManualStart(body) == parseTimeToSecondsJs(OrElse(body.startTime, body.start))
ManualEnd(body) == parseTimeToSecondsJs(OrElse(body.endTime, body.end))

\* A time of the request does not parse, or the parsed times are out of order or
\* give a duration under 5 or over 1800 seconds.
TimesRefused(body) ==
    \/ ~ManualStart(body).ok
    \/ ~ManualEnd(body).ok
    \/ ManualEnd(body).value <= ManualStart(body).value
    \/ ManualEnd(body).value - ManualStart(body).value < 5
    \/ ManualEnd(body).value - ManualStart(body).value > 1800

\* A stored clip is within the limits of the manual route.
WithinManualLimits(doc) ==
    /\ doc.endTimeSeconds > doc.startTimeSeconds
    /\ doc.duration = JsNum(doc.endTimeSeconds - doc.startTimeSeconds)
    /\ doc.endTimeSeconds - doc.startTimeSeconds >= 5
    /\ doc.endTimeSeconds - doc.startTimeSeconds <= 1800

\* C23: every clip written by POST /manual ends after its start and stores as
\* duration the difference, between 5 and 1800 seconds; a request of the admin
\* whose times do not parse or break these limits is answered 400 and leaves
\* the collection as it was.
C23_ManualLimits ==
    [][/\ \A i \in 1..Len(stored') :
              stored'[i].source = "manual" => WithinManualLimits(stored'[i])
       /\ (writeReq'.route = "manual" /\ writeReq'.authorized /\ TimesRefused(writeReq'))
              => (writeRes'.status = 400 /\ stored' = stored)]_vars

\* A clip of exactly 1800 seconds was written by POST /manual, and a later
\* request with refused times was answered 400.
C23_Witness ==
    /\ \E i \in 1..Len(stored) :
           stored[i].source = "manual" /\ stored[i].duration = JsNum(1800)
    /\ writeReq.route = "manual" /\ writeReq.authorized /\ TimesRefused(writeReq)
    /\ writeRes.status = 400

\* C24: every stored clip, whichever route wrote it, has start and end times
\* that are non-negative integers with the end after the start.
C24_StoredTimes ==
    \A i \in 1..Len(stored) :
        /\ stored[i].startTimeSeconds \in Nat
        /\ stored[i].endTimeSeconds \in Nat
        /\ stored[i].endTimeSeconds > stored[i].startTimeSeconds

\* An accepted import.
ImportAccepted == writeReq.route = "import" /\ writeRes.status = 200

\* Both times of a row parse.
RowParses(row) ==
    parseTimeToSecondsJs(row.startTime).ok /\ parseTimeToSecondsJs(row.endTime).ok

\* The episodes, in order, of the rows of an import that do or do not parse.
RowEpisodes(rows, parsing) ==
    LET Kept(row) == RowParses(row) = parsing
        kept == SelectSeq(rows, Kept)
    IN [i \in 1..Len(kept) |-> kept[i].episode]

\* Whether every element of s occurs in t in the same order.
RECURSIVE SubSeqOf(_, _)
SubSeqOf(s, t) ==
    IF s = <<>> THEN TRUE
    ELSE IF t = <<>> THEN FALSE
    ELSE IF Head(s) = Head(t) THEN SubSeqOf(Tail(s), Tail(t))
    ELSE SubSeqOf(s, Tail(t))

\* C28: in an accepted import the rows whose start or end does not parse are
\* all in errors and none of them is stored, whatever the other rows are, and
\* the count imported plus the count of errors is the count of rows submitted.
C28_ImportCounts ==
    ImportAccepted =>
        LET rows == writeReq.clips.rows
            docs == writeRes.docs
        IN /\ SubSeqOf(RowEpisodes(rows, FALSE),
                       [i \in 1..Len(writeRes.errors) |-> writeRes.errors[i].episode])
           /\ SubSeqOf([i \in 1..Len(docs) |-> docs[i].episode], RowEpisodes(rows, TRUE))
           /\ writeRes.imported = Len(docs)
           /\ writeRes.imported + Len(writeRes.errors) = Len(rows)
           /\ writeRes.total = Len(rows)
           /\ \A i \in 1..Len(docs) : stored[Len(stored) - Len(docs) + i] = docs[i]

\* An import of two rows: the first does not parse, the second is stored.
C28_Witness ==
    /\ ImportAccepted
    /\ Len(writeReq.clips.rows) = 2
    /\ ~RowParses(writeReq.clips.rows[1])
    /\ writeRes.imported = 1
    /\ writeRes.docs[1].episode = writeReq.clips.rows[2].episode

-----------------------------------------------------------------------------
(* The requests of the pagination hook *)

\* C30: at most one listing request of the hook is in flight at any time,
\* however loadMore, refresh, reset and the answers interleave.
C30_OneInFlight == Cardinality(inFlight) <= 1

====
